---------------------------- MODULE Spec2Model ----------------------------
(***************************************************************************)
(* The admin dashboard (ProductCatalogAdmin, src/src/components/Login.tsx) *)
(* as a state machine: the React state of the component, the hosted        *)
(* backend it talks to (two tables, the object store, the realtime         *)
(* channels), the clock, and one action per handler or per resumption of   *)
(* an async handler after an await.  The sign-in form (Login), the        *)
(* inquiry form (ContactForm, in its two sources) and the image gallery    *)
(* (ImmersedGallery) are modelled beside it, each with its own variables.  *)
(*                                                                         *)
(* Texts are sequences of one-character strings, so that split, trim,      *)
(* join, the file-name regular expression and Date.now().toString() are    *)
(* computed character by character, the way the code computes them.        *)
(***************************************************************************)
EXTENDS Integers, Sequences, FiniteSets, TLC

VARIABLES
    now,              \* Date.now(), milliseconds
    mounted,          \* the component exists (its React state is live)
    session,          \* what auth.getSession() will answer: "user", "none", "throws"
    authPc,           \* the session check: "pending" or "done"
    authReady, isAdmin, error, loading,
    plans, mediaItems,
    newPlan, uploadFile, isUploading, uploadProgress, isAddingPlan,
    showDeleteModal, itemToDelete,
    toasts, timers,
    plansChannelRef, mediaChannelRef,
    channels,         \* backend: the realtime channels currently subscribed
    pending,          \* backend: change notifications not yet delivered, per table
    dbPlans, dbMedia, \* backend: the rows of hms_plans and image_catalogue
    storage,          \* backend: the object paths held by the bucket
    nextId,           \* backend: the next row identifier it assigns
    tasks,            \* the async handlers suspended at an await
    opsLeft,          \* user operations still to be started
    notified,         \* change notifications delivered so far
    foreign,          \* changes made by other clients so far
    picks,            \* files picked so far
    console,          \* the last line written with console.error, if any
    bootPc,           \* the second effect: "idle", "fetching", "done"
    lastSnap, fired,  \* history: the rows last mirrored, the toast timers that fired
    changedSince,     \* history: the table changed after the last refresh of it was issued
    email, password,  \* Login: the form's fields
    loginError,       \* Login: its error state (null, or the message shown beneath the form)
    isLoading,        \* Login: the form is disabled while a sign-in is awaited
    focusedField,     \* Login: the input that has the focus: "none", "email", "password"
    loginTask,        \* Login: the credentials of the sign-in in flight, if any
    location,         \* window.location.href, as a path
    contactVariant,   \* ContactForm: which of the two sources of the form is built
    formData, status, \* ContactForm: its two pieces of React state
    contactTimers,    \* ContactForm: the setTimeout callbacks not yet run
    logged,           \* ContactForm: what console.log has written
    submits,          \* ContactForm: submit events handled so far
    openIndex,        \* ImmersedGallery: <<>> (null) or <<i>>, the image in the lightbox
    lastFocusedRef,   \* ImmersedGallery: <<>> or the thumbnail that opened the lightbox
    touchStartX,      \* ImmersedGallery: <<>> or the screenX where a touch began
    bodyOverflow      \* ImmersedGallery: document.body.style.overflow

reactVars == <<authReady, isAdmin, error, loading, plans, mediaItems, newPlan,
               uploadFile, isUploading, uploadProgress, isAddingPlan,
               showDeleteModal, itemToDelete, toasts>>
backendVars == <<channels, pending, dbPlans, dbMedia, storage, nextId>>
historyVars == <<lastSnap, fired>>
loginVars == <<email, password, loginError, isLoading, focusedField, loginTask, location>>
contactVars == <<contactVariant, formData, status, contactTimers, logged, submits>>
galleryVars == <<openIndex, lastFocusedRef, touchStartX, bodyOverflow>>
siteVars == <<contactVars, galleryVars>>
vars == <<now, mounted, session, authPc, reactVars, timers, plansChannelRef,
          mediaChannelRef, backendVars, tasks, opsLeft, notified, foreign, picks, console,
          bootPc, historyVars, changedSince, loginVars, siteVars>>

---------------------------------------------------------------------------
(* Bounds of the model *)

MaxLen == 4          \* longest enumerated input text
MaxCreated == 2      \* the latest creation time of a row the scenarios start with
MaxRows == 3         \* longest enumerated backend answer of hms_plans
MaxOps == 2          \* user operations that reach the backend
MaxForeign == 1      \* changes made by another client
Horizon == 6000      \* how far the clock runs past Now0
MaxSkew == 1         \* how long the clock is followed millisecond by millisecond
Now0 == 7            \* the clock when the component is constructed
MaxPicks == 1        \* files picked in the file input
MaxSubmits == 3      \* submit events of the contact form
ThinkTime == 2500    \* how long the user of the contact form takes to correct it

(* Program constants *)

TOAST_DELAY == 5000
PROGRESS_RESET_DELAY == 500
PROGRESS_STEPS == 11         \* for (let i = 0; i <= 100; i += 10)
PROGRESS_STEP_DELAY == 50

NoTime == -1         \* a null created_at / uploaded_at column
NoText == <<>>       \* '' (and a null text column, equally falsy)

---------------------------------------------------------------------------
(* Texts *)

Upper == <<"A","B","C","D","E","F","G","H","I","J","K","L","M",
           "N","O","P","Q","R","S","T","U","V","W","X","Y","Z">>
Lower == <<"a","b","c","d","e","f","g","h","i","j","k","l","m",
           "n","o","p","q","r","s","t","u","v","w","x","y","z">>
DigitChars == <<"0","1","2","3","4","5","6","7","8","9">>

Range(s) == {s[i] : i \in DOMAIN s}

IsWhite(c) == c \in {" ", "\t", "\n"}

\* String.prototype.trim
RECURSIVE TrimStart(_)
TrimStart(s) == IF s # <<>> /\ IsWhite(Head(s)) THEN TrimStart(Tail(s)) ELSE s

RECURSIVE TrimEnd(_)
TrimEnd(s) ==
    IF s # <<>> /\ IsWhite(s[Len(s)]) THEN TrimEnd(SubSeq(s, 1, Len(s) - 1)) ELSE s

Trim(s) == TrimEnd(TrimStart(s))

\* String.prototype.split(','): the segments between the commas, empty ones kept
RECURSIVE SplitFrom(_, _, _)
SplitFrom(s, cur, acc) ==
    IF s = <<>> THEN Append(acc, cur)
    ELSE IF Head(s) = "," THEN SplitFrom(Tail(s), <<>>, Append(acc, cur))
    ELSE SplitFrom(Tail(s), Append(cur, Head(s)), acc)

SplitComma(s) == SplitFrom(s, <<>>, <<>>)

\* a map that trims the start of each segment only
MapTrimStart(segs) == [i \in DOMAIN segs |-> TrimStart(segs[i])]
\* .map((f) => f.trim())
MapTrim(segs) == [i \in DOMAIN segs |-> Trim(segs[i])]

\* .filter(Boolean) on strings: the empty string is the only falsy one
FilterBooleanBroken(segs) == segs
FilterBoolean(segs) == SelectSeq(segs, LAMBDA x : x # <<>>)

\* Array.prototype.join(', ')
RECURSIVE JoinCommaSpace(_)
JoinCommaSpace(segs) ==
    IF segs = <<>> THEN <<>>
    ELSE IF Len(segs) = 1 THEN segs[1]
    ELSE segs[1] \o <<",", " ">> \o JoinCommaSpace(Tail(segs))

\* handleAddPlan: newPlan.features.split(',').map(trim).filter(Boolean).join(', ')
NormalizeFeatures(text) == JoinCommaSpace(FilterBoolean(MapTrim(SplitComma(text))))

\* fetchPlans: d.features ? d.features.split(',').map(trim).filter(Boolean) : []
ParseFeatures(text) ==
    IF text = NoText THEN <<>>
    ELSE FilterBoolean(MapTrim(SplitComma(text)))

\* Number.prototype.toString() of a non-negative integer
RECURSIVE DigitsOf(_)
DigitsOf(n) ==
    IF n < 10 THEN <<DigitChars[n + 1]>>
    ELSE Append(DigitsOf(n \div 10), DigitChars[(n % 10) + 1])

\* /[^a-z0-9.]/gi : the characters the class a-z0-9. matches, case ignored
Allowed(c) == c \in Range(Lower) \/ c \in Range(Upper) \/ c \in Range(DigitChars) \/ c = "."

\* String.prototype.toLowerCase, one character
ToLowerChar(c) ==
    IF c = "Eacute" THEN "eacute"
    ELSE IF \E i \in DOMAIN Upper : Upper[i] = c
         THEN Lower[CHOOSE i \in DOMAIN Upper : Upper[i] = c]
         ELSE c

SanitizeKeepsOthers(name) == [i \in DOMAIN name |-> ToLowerChar(name[i])]
SanitizeBroken(name) == [i \in DOMAIN name |-> IF Allowed(name[i]) THEN name[i] ELSE "_"]
Sanitize(name) ==
    [i \in DOMAIN name |-> ToLowerChar(IF Allowed(name[i]) THEN name[i] ELSE "_")]

\* `${Date.now()}_${uploadFile.name.replace(/[^a-z0-9.]/gi, '_').toLowerCase()}`
SafeFileName(t, name) == DigitsOf(t) \o <<"_">> \o Sanitize(name)

STORAGE_PUBLIC_PATH == <<"p", "/">>
StoragePath(fileName) == STORAGE_PUBLIC_PATH \o fileName


---------------------------------------------------------------------------
(* Rows, mirrors and the two fetches *)

Max(S) == CHOOSE x \in S : \A y \in S : y <= x

Without(s, i) == SubSeq(s, 1, i - 1) \o SubSeq(s, i + 1, Len(s))

\* An optional value is a sequence of length 0 (undefined, null) or 1.
\* (a.createdAt?.seconds || 0): undefined and 0 both give 0.  createdAt.seconds
\* is kept in thousandths (the millisecond value): the code divides by 1000,
\* which changes neither the sign of a difference nor which values are 0.
SecondsOrZero(p) == IF p.createdAt = <<>> THEN 0 ELSE p.createdAt[1].seconds

ComparePlansNoPrimary(a, b) == SecondsOrZero(a) - SecondsOrZero(b)
\* the comparator handed to fetchedPlans.sort
ComparePlans(a, b) ==
    IF a.isPrimary # b.isPrimary THEN (IF a.isPrimary THEN -1 ELSE 1)
    ELSE SecondsOrZero(a) - SecondsOrZero(b)

\* Array.prototype.sort is stable: an element goes after every element the
\* comparator does not put behind it.
RECURSIVE InsertSorted(_, _)
InsertSorted(x, s) ==
    IF s = <<>> THEN <<x>>
    ELSE IF ComparePlans(Head(s), x) > 0 THEN <<x>> \o s
    ELSE <<Head(s)>> \o InsertSorted(x, Tail(s))

RECURSIVE SortPlans(_)
SortPlans(s) ==
    IF s = <<>> THEN <<>>
    ELSE InsertSorted(s[Len(s)], SortPlans(SubSeq(s, 1, Len(s) - 1)))

\* one element of (data || []).map(...) in fetchPlans
FetchedPlan(d) ==
    [id |-> d.id, name |-> d.name, price |-> d.price,
     features |-> ParseFeatures(d.features),
     isPrimary |-> d.is_primary,
     createdAt |-> IF d.created_at = NoTime THEN <<>> ELSE <<[seconds |-> d.created_at]>>]

\* fetchedPlans after the sort
FetchedPlans(data) == SortPlans([i \in DOMAIN data |-> FetchedPlan(data[i])])

setPlansAppend(prev, fetched) == prev \o fetched
\* setPlans(fetchedPlans): the new mirror, given the one it replaces
setPlans(prev, fetched) == fetched

\* one element of (data || []).map(...) in fetchMedia
FetchedMediaItem(d) ==
    [id |-> d.id, fileName |-> d.file_name, url |-> d.url,
     uploadedAt |-> IF d.uploaded_at = NoTime THEN [seconds |-> 0]
                    ELSE [seconds |-> d.uploaded_at]]

FetchedMedia(data) == [i \in DOMAIN data |-> FetchedMediaItem(data[i])]

\* setMediaItems(fetchedMedia): the new mirror, given the one it replaces
setMediaItems(prev, fetched) == fetched

\* the backend's answer to .order('uploaded_at', { ascending: false })
RECURSIVE InsertDesc(_, _)
InsertDesc(x, s) ==
    IF s = <<>> THEN <<x>>
    ELSE IF Head(s).uploaded_at < x.uploaded_at THEN <<x>> \o s
    ELSE <<Head(s)>> \o InsertDesc(x, Tail(s))

RECURSIVE OrderDesc(_)
OrderDesc(s) ==
    IF s = <<>> THEN <<>>
    ELSE InsertDesc(s[Len(s)], OrderDesc(SubSeq(s, 1, Len(s) - 1)))

---------------------------------------------------------------------------
(* The component's state and the backend *)

PLANS_TABLE == "hms_plans"
MEDIA_TABLE == "image_catalogue"
Tables == {PLANS_TABLE, MEDIA_TABLE}

\* useState: the setter of a component that was torn down changes nothing
St(old, new) == IF mounted THEN new ELSE old

EmptyForm == [name |-> NoText, price |-> NoText, features |-> NoText, isPrimary |-> FALSE]

NoItem == [id |-> 0, type |-> "none", name |-> NoText]
NoRow == [name |-> NoText, price |-> NoText, features |-> NoText,
          is_primary |-> FALSE, created_at |-> NoTime]
NoSnap == [ok |-> FALSE, rows |-> <<>>]

\* console.error(tag, err): the handler's tag and the call whose error it logs
ErrorLine(tag, call) == <<[tag |-> tag, call |-> call]>>

\* a handler suspended at an await: what it waits for (pc) and what it captured
NewTask(op, kind, pc) ==
    [op |-> op, kind |-> kind, pc |-> pc, boot |-> FALSE, item |-> NoItem,
     row |-> NoRow, file |-> NoText, at |-> 0, wake |-> 0, snap |-> NoSnap,
     before |-> <<>>, base |-> <<>>]

SeedPlans ==
    << [id |-> 1, name |-> <<"P","r","o">>, price |-> <<"$","2","0">>,
        features |-> <<"S","y","n","c">>, is_primary |-> TRUE, created_at |-> 3] >>
SeedMedia ==
    << [id |-> 2, file_name |-> <<"5","_","a",".","p","n","g">>,
        url |-> StoragePath(<<"5","_","a",".","p","n","g">>), uploaded_at |-> 5] >>

\* ContactForm: the two sources of the form
CONTACT_FORM == "ContactForm.tsx"
PART_000 == "part_000"
ContactVariants == {CONTACT_FORM, PART_000}

\* the topic the form of part_000 starts with and resets to
HMS_TOPIC == "Afrodoctor Hospital Management System (HMS)"

\* useState<FormData>({...}), and the object the completed submit resets to
EmptyFormData(variant) ==
    [name |-> "", email |-> "", organization |-> "",
     topic |-> IF variant = PART_000 THEN HMS_TOPIC ELSE "",
     message |-> "", hp |-> ""]

\* the public pages as constructed: the contact form and the gallery
InitSite(variants) ==
    /\ contactVariant \in variants
    /\ formData = EmptyFormData(contactVariant)
    /\ status = "idle"
    /\ contactTimers = <<>>
    /\ logged = <<>>
    /\ submits = 0
    /\ openIndex = <<>>
    /\ lastFocusedRef = <<>>
    /\ touchStartX = <<>>
    /\ bodyOverflow = ""

\* the dashboard and the sign-in form as constructed
InitDashboard(sessions, planTables, mediaTables, ops) ==
    /\ now = Now0
    /\ mounted = TRUE
    /\ session \in sessions
    /\ authPc = "pending"
    /\ authReady = FALSE
    /\ isAdmin = FALSE
    /\ error = "none"
    /\ loading = TRUE
    /\ plans = <<>>
    /\ mediaItems = <<>>
    /\ newPlan = EmptyForm
    /\ uploadFile = NoText
    /\ isUploading = FALSE
    /\ uploadProgress = 0
    /\ isAddingPlan = FALSE
    /\ showDeleteModal = FALSE
    /\ itemToDelete = <<>>
    /\ toasts = <<>>
    /\ timers = <<>>
    /\ plansChannelRef = FALSE
    /\ mediaChannelRef = FALSE
    /\ channels = {}
    /\ pending = [t \in Tables |-> 0]
    /\ dbPlans \in planTables
    /\ dbMedia \in mediaTables
    /\ storage = {StoragePath(dbMedia[i].file_name) : i \in DOMAIN dbMedia}
    /\ nextId = 1 + Max({0} \cup {dbPlans[i].id : i \in DOMAIN dbPlans}
                            \cup {dbMedia[i].id : i \in DOMAIN dbMedia})
    /\ tasks = {}
    /\ opsLeft = ops
    /\ notified = 0
    /\ foreign = 0
    /\ picks = 0
    /\ console = <<>>
    /\ bootPc = "idle"
    /\ lastSnap = [t \in Tables |-> <<>>]
    /\ fired = {}
    /\ changedSince = [t \in Tables |-> TRUE]
    /\ email = ""
    /\ password = ""
    /\ loginError = <<>>
    /\ isLoading = FALSE
    /\ focusedField = "none"
    /\ loginTask = <<>>
    /\ location = "/login"

InitWith(sessions, planTables, mediaTables, ops) ==
    /\ InitDashboard(sessions, planTables, mediaTables, ops)
    /\ InitSite({CONTACT_FORM})

Init == InitWith({"user", "none", "throws"}, {SeedPlans}, {SeedMedia}, 1)

\* the backend queues a change notification for every subscriber of the table
Notified(table) ==
    IF table \in channels THEN [pending EXCEPT ![table] = @ + 1] ELSE pending

---------------------------------------------------------------------------
(* Toasts and timers *)

\* setTimeout(() => setToasts(prev => prev.filter(toast => toast.id !== id)), 5000)
ToastTimer == [kind |-> "toast", id |-> DigitsOf(now), due |-> now + TOAST_DELAY]

\* setTimeout(() => setUploadProgress(0), 500)
ProgressTimer == [kind |-> "progress", id |-> <<>>, due |-> now + PROGRESS_RESET_DELAY]

addToast(message, type, moreTimers) ==
    /\ toasts' = St(toasts, Append(toasts,
                        [id |-> DigitsOf(now), message |-> message, type |-> type]))
    /\ timers' = (timers \o <<ToastTimer>>) \o moreTimers

\* a removal whose filter keeps the toast it should drop
toastExpireInverted(i) ==
    /\ timers[i].kind = "toast"
    /\ timers[i].due <= now
    /\ toasts' = St(toasts, SelectSeq(toasts, LAMBDA t : t.id = timers[i].id))
    /\ timers' = Without(timers, i)
    /\ fired' = fired \cup {timers[i].id}
    /\ UNCHANGED <<now, mounted, session, authPc, authReady, isAdmin, error, loading,
                   plans, mediaItems, newPlan, uploadFile, isUploading, uploadProgress,
                   isAddingPlan, showDeleteModal, itemToDelete, plansChannelRef,
                   mediaChannelRef, backendVars, tasks, opsLeft, notified, foreign,
                   picks, console, bootPc, lastSnap,
                   changedSince, loginVars, siteVars>>

\* the toast's removal timer fires
toastExpire(i) ==
    /\ timers[i].kind = "toast"
    /\ timers[i].due <= now
    /\ toasts' = St(toasts, SelectSeq(toasts, LAMBDA t : t.id # timers[i].id))
    /\ timers' = Without(timers, i)
    /\ fired' = fired \cup {timers[i].id}
    /\ UNCHANGED <<now, mounted, session, authPc, authReady, isAdmin, error, loading,
                   plans, mediaItems, newPlan, uploadFile, isUploading, uploadProgress,
                   isAddingPlan, showDeleteModal, itemToDelete, plansChannelRef,
                   mediaChannelRef, backendVars, tasks, opsLeft, notified, foreign, picks, console,
                   bootPc, lastSnap,
                   changedSince, loginVars, siteVars>>

\* the progress bar's reset timer fires
progressReset(i) ==
    /\ timers[i].kind = "progress"
    /\ timers[i].due <= now
    /\ uploadProgress' = St(uploadProgress, 0)
    /\ timers' = Without(timers, i)
    /\ UNCHANGED <<now, mounted, session, authPc, authReady, isAdmin, error, loading,
                   plans, mediaItems, newPlan, uploadFile, isUploading,
                   isAddingPlan, showDeleteModal, itemToDelete, toasts, plansChannelRef,
                   mediaChannelRef, backendVars, tasks, opsLeft, notified, foreign, picks, console,
                   bootPc, historyVars,
                   changedSince, loginVars, siteVars>>

\* the dashboard is rendered: the gate is open (lines 644-668)
Rendered == mounted /\ authReady /\ isAdmin
\* the lists and the forms are rendered: loading ? spinner : content
UIEnabled == Rendered /\ ~loading

\* the toast's close button
removeToast(id) ==
    /\ Rendered
    /\ \E i \in DOMAIN toasts : toasts[i].id = id
    /\ toasts' = SelectSeq(toasts, LAMBDA t : t.id # id)
    /\ UNCHANGED <<now, mounted, session, authPc, authReady, isAdmin, error, loading,
                   plans, mediaItems, newPlan, uploadFile, isUploading, uploadProgress,
                   isAddingPlan, showDeleteModal, itemToDelete, timers, plansChannelRef,
                   mediaChannelRef, backendVars, tasks, opsLeft, notified, foreign, picks, console,
                   bootPc, historyVars,
                   changedSince, loginVars, siteVars>>

\* the instants something waits for: a timer's due time, the end of the
\* progress loop
Dues ==
    {timers[i].due : i \in DOMAIN timers}
        \cup {t.wake : t \in {u \in tasks : u.pc = "progress"}}
        \cup {contactTimers[i].due : i \in DOMAIN contactTimers}

\* time passes: to the next millisecond, or on to an instant something waits for
TickSteps == {1} \cup {due - now : due \in {x \in Dues : x > now}}

Tick(d) ==
    /\ d = 1 => now < Now0 + MaxSkew
    /\ now + d <= Now0 + Horizon
    /\ now' = now + d
    /\ UNCHANGED <<mounted, session, authPc, reactVars, timers, plansChannelRef,
                   mediaChannelRef, backendVars, tasks, opsLeft, notified, foreign, picks, console,
                   bootPc, historyVars,
                   changedSince, loginVars, siteVars>>

---------------------------------------------------------------------------
(* The session check, the initial load, the fetches, the realtime channels *)

\* which collection a suspended handler's fetch reads
TableOf(t) ==
    IF t.kind \in {"fetchPlans", "addPlan"} \/ (t.kind = "delete" /\ t.item.type = "plan")
    THEN PLANS_TABLE ELSE MEDIA_TABLE

BootFetches ==
    { [NewTask(0 - 1, "fetchPlans", "fetch") EXCEPT !.boot = TRUE],
      [NewTask(0 - 2, "fetchMedia", "fetch") EXCEPT !.boot = TRUE] }

AdminOfSessionAlways(s) == TRUE
\* setIsAdmin(!!user)
AdminOfSession(s) == s = "user"

\* the first effect's async block resumes after auth.getSession(); the render
\* that follows runs the second effect, whose guard (authReady) now passes:
\* setLoading(true) and Promise.all([fetchPlans(), fetchMedia()]) are issued.
authResolve ==
    /\ authPc = "pending"
    /\ authPc' = "done"
    /\ IF session = "throws"
       THEN /\ console' = ErrorLine("auth", "getSession")
            /\ error' = St(error, "auth")
            /\ isAdmin' = isAdmin
       ELSE /\ console' = console
            /\ error' = error
            /\ isAdmin' = St(isAdmin, AdminOfSession(session))
    /\ authReady' = St(authReady, TRUE)
    /\ IF mounted
       THEN /\ loading' = TRUE
            /\ tasks' = tasks \cup BootFetches
            /\ bootPc' = "fetching"
            /\ changedSince' = [table \in Tables |-> FALSE]
       ELSE UNCHANGED <<loading, tasks, bootPc, changedSince>>
    /\ UNCHANGED <<now, mounted, session, plans, mediaItems, newPlan, uploadFile,
                   isUploading, uploadProgress, isAddingPlan, showDeleteModal,
                   itemToDelete, toasts, timers, plansChannelRef, mediaChannelRef,
                   backendVars, opsLeft, notified, foreign, picks, historyVars, loginVars, siteVars>>

\* the backend answers a select('*') with the rows it holds now, or with an error
SelectAll(table) == IF table = PLANS_TABLE THEN dbPlans ELSE OrderDesc(dbMedia)

fetchRead(t, ok) ==
    /\ t.pc = "fetch"
    /\ tasks' = (tasks \ {t}) \cup
           {[t EXCEPT !.pc = "fetched",
                      !.snap = IF ok THEN [ok |-> TRUE, rows |-> SelectAll(TableOf(t))]
                               ELSE NoSnap]}
    /\ UNCHANGED <<now, mounted, session, authPc, reactVars, timers, plansChannelRef,
                   mediaChannelRef, backendVars, opsLeft, notified, foreign, picks, console, bootPc,
                   historyVars,
                   changedSince, loginVars, siteVars>>

\* fetchPlans / fetchMedia after the await: setPlans or setMediaItems and
\* setError(null), or the catch's setError
fetchSettle(t) ==
    /\ plans' = IF TableOf(t) = PLANS_TABLE /\ t.snap.ok
                THEN St(plans, setPlans(plans, FetchedPlans(t.snap.rows))) ELSE plans
    /\ mediaItems' = IF TableOf(t) = MEDIA_TABLE /\ t.snap.ok
                     THEN St(mediaItems, setMediaItems(mediaItems, FetchedMedia(t.snap.rows)))
                     ELSE mediaItems
    /\ error' = St(error, IF t.snap.ok THEN "none"
                          ELSE IF TableOf(t) = PLANS_TABLE THEN "plans" ELSE "media")
    /\ console' = IF t.snap.ok THEN console
                  ELSE ErrorLine(IF TableOf(t) = PLANS_TABLE THEN "fetchPlans"
                                 ELSE "fetchMedia", "select")
    /\ lastSnap' = IF t.snap.ok /\ mounted
                   THEN [lastSnap EXCEPT ![TableOf(t)] = <<t.snap.rows>>]
                   ELSE lastSnap

LastBootFetch(t) == t.boot /\ ~(\E u \in tasks \ {t} : u.boot)

\* a fetch started by a change notification, or one of the two initial
\* fetches while the other is still in flight, completes
fetchDone(t) ==
    /\ t.kind \in {"fetchPlans", "fetchMedia"}
    /\ t.pc = "fetched"
    /\ ~LastBootFetch(t)
    /\ fetchSettle(t)
    /\ tasks' = tasks \ {t}
    /\ UNCHANGED <<now, mounted, session, authPc, authReady, isAdmin, loading, newPlan,
                   uploadFile, isUploading, uploadProgress, isAddingPlan,
                   showDeleteModal, itemToDelete, toasts, timers, plansChannelRef,
                   mediaChannelRef, backendVars, opsLeft, notified, foreign, picks, bootPc,
                   fired,
                   changedSince, loginVars, siteVars>>

\* the second of the two initial fetches completes: Promise.all resolves and
\* the effect goes on to subscribe the two channels (or the subscription
\* throws, which is caught), then if (mounted) setLoading(false)
bootDone(t, subscribed) ==
    /\ t.kind \in {"fetchPlans", "fetchMedia"}
    /\ t.pc = "fetched"
    /\ LastBootFetch(t)
    /\ fetchSettle(t)
    /\ tasks' = tasks \ {t}
    /\ IF subscribed
       THEN /\ channels' = channels \cup Tables
            /\ plansChannelRef' = TRUE
            /\ mediaChannelRef' = TRUE
       ELSE UNCHANGED <<channels, plansChannelRef, mediaChannelRef>>
    /\ loading' = St(loading, FALSE)
    /\ bootPc' = "done"
    /\ UNCHANGED <<now, mounted, session, authPc, authReady, isAdmin, newPlan,
                   uploadFile, isUploading, uploadProgress, isAddingPlan,
                   showDeleteModal, itemToDelete, toasts, timers, pending, dbPlans,
                   dbMedia, storage, nextId, opsLeft, notified, foreign, picks,
                   fired,
                   changedSince, loginVars, siteVars>>

\* both channels wired to the same callback, () => fetchPlans()
notifyFetchesPlans(table) ==
    /\ table \in channels
    /\ pending[table] > 0
    /\ pending' = [pending EXCEPT ![table] = @ - 1]
    /\ tasks' = tasks \cup {NewTask(0 - (3 + notified), "fetchPlans", "fetch")}
    /\ notified' = notified + 1
    /\ changedSince' = [changedSince EXCEPT ![PLANS_TABLE] = FALSE]
    /\ UNCHANGED <<now, mounted, session, authPc, reactVars, timers, plansChannelRef,
                   mediaChannelRef, channels, dbPlans, dbMedia, storage, nextId,
                   opsLeft, foreign, picks, console, bootPc, historyVars, loginVars, siteVars>>

\* a postgres_changes event reaches the channel's callback: () => fetchPlans()
\* or () => fetchMedia()
notify(table) ==
    /\ table \in channels
    /\ pending[table] > 0
    /\ pending' = [pending EXCEPT ![table] = @ - 1]
    /\ tasks' = tasks \cup
           {NewTask(0 - (3 + notified),
                    IF table = PLANS_TABLE THEN "fetchPlans" ELSE "fetchMedia", "fetch")}
    /\ notified' = notified + 1
    /\ changedSince' = [changedSince EXCEPT ![table] = FALSE]
    /\ UNCHANGED <<now, mounted, session, authPc, reactVars, timers, plansChannelRef,
                   mediaChannelRef, channels, dbPlans, dbMedia, storage, nextId,
                   opsLeft, foreign, picks, console, bootPc, historyVars, loginVars, siteVars>>

\* the channels the second effect's cleanup removes: those its refs hold
RemovedAtCleanup ==
    (IF plansChannelRef THEN {PLANS_TABLE} ELSE {})
        \cup (IF mediaChannelRef THEN {MEDIA_TABLE} ELSE {})

\* the component is torn down: both effects' cleanups run
unmount ==
    /\ mounted
    /\ mounted' = FALSE
    /\ channels' = channels \ RemovedAtCleanup
    /\ pending' = [t \in Tables |-> IF t \in RemovedAtCleanup THEN 0 ELSE pending[t]]
    /\ UNCHANGED <<now, session, authPc, reactVars, timers, plansChannelRef,
                   mediaChannelRef, dbPlans, dbMedia, storage, nextId, tasks, opsLeft,
                   notified, foreign, picks, console, bootPc, historyVars,
                   changedSince, loginVars, siteVars>>

\* another client of the same backend inserts a plan
otherClientInsertPlan ==
    /\ foreign < MaxForeign
    /\ foreign' = foreign + 1
    /\ dbPlans' = Append(dbPlans,
           [id |-> nextId, name |-> <<"X">>, price |-> <<"1">>, features |-> <<"x">>,
            is_primary |-> TRUE, created_at |-> now])
    /\ nextId' = nextId + 1
    /\ pending' = Notified(PLANS_TABLE)
    /\ changedSince' = [changedSince EXCEPT ![PLANS_TABLE] = TRUE]
    /\ UNCHANGED <<now, mounted, session, authPc, reactVars, timers, plansChannelRef,
                   mediaChannelRef, channels, dbMedia, storage, tasks, opsLeft,
                   notified, picks, console, bootPc, historyVars, loginVars, siteVars>>

\* another client of the same backend deletes a plan
otherClientDeletePlan(i) ==
    /\ foreign < MaxForeign
    /\ foreign' = foreign + 1
    /\ dbPlans' = Without(dbPlans, i)
    /\ pending' = Notified(PLANS_TABLE)
    /\ changedSince' = [changedSince EXCEPT ![PLANS_TABLE] = TRUE]
    /\ UNCHANGED <<now, mounted, session, authPc, reactVars, timers, plansChannelRef,
                   mediaChannelRef, channels, dbMedia, storage, nextId, tasks, opsLeft,
                   notified, picks, console, bootPc, historyVars, loginVars, siteVars>>

\* another client of the same backend deletes a media item and its object
otherClientDeleteMedia(i) ==
    /\ foreign < MaxForeign
    /\ foreign' = foreign + 1
    /\ dbMedia' = Without(dbMedia, i)
    /\ storage' = storage \ {StoragePath(dbMedia[i].file_name)}
    /\ pending' = Notified(MEDIA_TABLE)
    /\ changedSince' = [changedSince EXCEPT ![MEDIA_TABLE] = TRUE]
    /\ UNCHANGED <<now, mounted, session, authPc, reactVars, timers, plansChannelRef,
                   mediaChannelRef, channels, dbPlans, nextId, tasks, opsLeft,
                   notified, picks, console, bootPc, historyVars, loginVars, siteVars>>

---------------------------------------------------------------------------
(* Plans: the form, add-plan *)

\* handleNewPlanChange, once per field the user fills: the form as it stands
\* when the user stops typing
handleNewPlanChange(form) ==
    /\ UIEnabled
    /\ ~isAddingPlan
    /\ newPlan' = form
    /\ UNCHANGED <<now, mounted, session, authPc, authReady, isAdmin, error, loading,
                   plans, mediaItems, uploadFile, isUploading, uploadProgress,
                   isAddingPlan, showDeleteModal, itemToDelete, toasts, timers,
                   plansChannelRef, mediaChannelRef, backendVars, tasks, opsLeft,
                   notified, foreign, picks, console, bootPc, historyVars,
                   changedSince, loginVars, siteVars>>

\* a payload whose is_primary is not taken from the form
PayloadNoPrimary(form) ==
    [name |-> Trim(form.name), price |-> Trim(form.price),
     features |-> NormalizeFeatures(form.features),
     is_primary |-> FALSE, created_at |-> now]

\* the payload handleAddPlan builds
Payload(form) ==
    [name |-> Trim(form.name), price |-> Trim(form.price),
     features |-> NormalizeFeatures(form.features),
     is_primary |-> form.isPrimary, created_at |-> now]

\* the form's required inputs let the submit event through
RequiredFilled == newPlan.name # NoText /\ newPlan.price # NoText /\ newPlan.features # NoText

\* handleAddPlan up to its first await: the insert is issued
handleAddPlan ==
    /\ UIEnabled
    /\ ~isAddingPlan
    /\ RequiredFilled
    /\ opsLeft > 0
    /\ IF ~isAdmin
       THEN /\ addToast("denied", "error", <<>>)
            /\ UNCHANGED <<isAddingPlan, tasks, opsLeft>>
       ELSE /\ isAddingPlan' = TRUE
            /\ tasks' = tasks \cup
                   {[NewTask(opsLeft, "addPlan", "insert") EXCEPT
                        !.row = Payload(newPlan), !.before = plans, !.base = dbPlans]}
            /\ opsLeft' = opsLeft - 1
            /\ UNCHANGED <<toasts, timers>>
    /\ UNCHANGED <<now, mounted, session, authPc, authReady, isAdmin, error, loading,
                   plans, mediaItems, newPlan, uploadFile, isUploading, uploadProgress,
                   showDeleteModal, itemToDelete, plansChannelRef, mediaChannelRef,
                   backendVars, notified, foreign, picks, console, bootPc,
                   lastSnap, fired,
                   changedSince, loginVars, siteVars>>

StoredPlan(row, id) ==
    [id |-> id, name |-> row.name, price |-> row.price, features |-> row.features,
     is_primary |-> row.is_primary, created_at |-> row.created_at]

\* a handleAddPlan that also puts the new plan into the mirror at once
handleAddPlan_insertedOptimistic(t) ==
    /\ t.kind = "addPlan"
    /\ t.pc = "insert"
    /\ dbPlans' = Append(dbPlans, StoredPlan(t.row, nextId))
    /\ nextId' = nextId + 1
    /\ pending' = Notified(PLANS_TABLE)
    /\ tasks' = (tasks \ {t}) \cup {[t EXCEPT !.pc = "fetch"]}
    /\ changedSince' = [changedSince EXCEPT ![PLANS_TABLE] = FALSE]
    /\ plans' = St(plans, Append(plans, FetchedPlan(StoredPlan(t.row, nextId))))
    /\ UNCHANGED <<now, mounted, session, authPc, authReady, isAdmin, error, loading,
                   mediaItems, newPlan, uploadFile, isUploading, uploadProgress,
                   isAddingPlan, showDeleteModal, itemToDelete, toasts, timers,
                   plansChannelRef, mediaChannelRef, channels, dbMedia, storage,
                   opsLeft, notified, foreign, picks, console, bootPc, historyVars,
                   loginVars, siteVars>>

\* the insert succeeded: handleAddPlan goes on to await fetchPlans()
handleAddPlan_inserted(t) ==
    /\ t.kind = "addPlan"
    /\ t.pc = "insert"
    /\ dbPlans' = Append(dbPlans, StoredPlan(t.row, nextId))
    /\ nextId' = nextId + 1
    /\ pending' = Notified(PLANS_TABLE)
    /\ tasks' = (tasks \ {t}) \cup {[t EXCEPT !.pc = "fetch"]}
    /\ changedSince' = [changedSince EXCEPT ![PLANS_TABLE] = FALSE]
    /\ UNCHANGED <<now, mounted, session, authPc, reactVars, timers, plansChannelRef,
                   mediaChannelRef, channels, dbMedia, storage, opsLeft, notified,
                   foreign, picks, console, bootPc, historyVars, loginVars, siteVars>>

\* a handleAddPlan that does not look at the insert's error and reports success
handleAddPlan_failedUnnoticed(t) ==
    /\ t.kind = "addPlan"
    /\ t.pc = "insert"
    /\ addToast("added", "success", <<>>)
    /\ isAddingPlan' = St(isAddingPlan, FALSE)
    /\ tasks' = tasks \ {t}
    /\ UNCHANGED <<now, mounted, session, authPc, authReady, isAdmin, error, loading,
                   plans, mediaItems, newPlan, uploadFile, isUploading, uploadProgress,
                   showDeleteModal, itemToDelete, plansChannelRef, mediaChannelRef,
                   backendVars, opsLeft, notified, foreign, picks, console, bootPc,
                   lastSnap, fired,
                   changedSince, loginVars, siteVars>>

\* a handleAddPlan without its finally: a failed insert leaves the flag set
handleAddPlan_failedStaysBusy(t) ==
    /\ t.kind = "addPlan"
    /\ t.pc = "insert"
    /\ console' = ErrorLine("handleAddPlan", t.pc)
    /\ addToast("add failed", "error", <<>>)
    /\ tasks' = tasks \ {t}
    /\ UNCHANGED <<now, mounted, session, authPc, authReady, isAdmin, error, loading,
                   plans, mediaItems, newPlan, uploadFile, isUploading, uploadProgress,
                   isAddingPlan, showDeleteModal, itemToDelete, plansChannelRef,
                   mediaChannelRef, backendVars, opsLeft, notified, foreign, picks, bootPc,
                   lastSnap, fired, changedSince, loginVars, siteVars>>

\* the insert failed: catch and finally
handleAddPlan_failed(t) ==
    /\ t.kind = "addPlan"
    /\ t.pc = "insert"
    /\ console' = ErrorLine("handleAddPlan", t.pc)
    /\ addToast("add failed", "error", <<>>)
    /\ isAddingPlan' = St(isAddingPlan, FALSE)
    /\ tasks' = tasks \ {t}
    /\ UNCHANGED <<now, mounted, session, authPc, authReady, isAdmin, error, loading,
                   plans, mediaItems, newPlan, uploadFile, isUploading, uploadProgress,
                   showDeleteModal, itemToDelete, plansChannelRef, mediaChannelRef,
                   backendVars, opsLeft, notified, foreign, picks, bootPc,
                   lastSnap, fired,
                   changedSince, loginVars, siteVars>>

\* fetchPlans returned (it catches its own failure): the form is reset, the
\* success toast is added, finally
handleAddPlan_done(t) ==
    /\ t.kind = "addPlan"
    /\ t.pc = "fetched"
    /\ fetchSettle(t)
    /\ newPlan' = St(newPlan, EmptyForm)
    /\ addToast("added", "success", <<>>)
    /\ isAddingPlan' = St(isAddingPlan, FALSE)
    /\ tasks' = tasks \ {t}
    /\ UNCHANGED <<now, mounted, session, authPc, authReady, isAdmin, loading,
                   uploadFile, isUploading, uploadProgress, showDeleteModal,
                   itemToDelete, plansChannelRef, mediaChannelRef, backendVars,
                   opsLeft, notified, foreign, picks, bootPc, fired,
                   changedSince, loginVars, siteVars>>

---------------------------------------------------------------------------
(* The confirmation modal and the deletions *)

\* DeleteConfirmationModal renders: if (!showDeleteModal || !itemToDelete) return null
ModalVisible == Rendered /\ showDeleteModal /\ itemToDelete # <<>>

\* a prompt that issues the row delete at once instead of waiting for the modal
handleDeletePlanPromptDeletes(i) ==
    /\ UIEnabled
    /\ ~ModalVisible
    /\ opsLeft > 0
    /\ LET item == [id |-> plans[i].id, type |-> "plan", name |-> plans[i].name]
       IN  /\ itemToDelete' = <<item>>
           /\ tasks' = tasks \cup {[NewTask(opsLeft, "delete", "del") EXCEPT !.item = item]}
    /\ opsLeft' = opsLeft - 1
    /\ showDeleteModal' = TRUE
    /\ UNCHANGED <<now, mounted, session, authPc, authReady, isAdmin, error, loading,
                   plans, mediaItems, newPlan, uploadFile, isUploading, uploadProgress,
                   isAddingPlan, toasts, timers, plansChannelRef, mediaChannelRef,
                   backendVars, notified, foreign, picks, console, bootPc, lastSnap, fired,
                   changedSince, loginVars, siteVars>>

\* handleDeletePlanPrompt(plan), from the plan's Delete button
handleDeletePlanPrompt(i) ==
    /\ UIEnabled
    /\ ~ModalVisible
    /\ isAdmin
    /\ LET item == [id |-> plans[i].id, type |-> "plan", name |-> plans[i].name]
       IN  /\ itemToDelete' = <<item>>
    /\ showDeleteModal' = TRUE
    /\ UNCHANGED <<now, mounted, session, authPc, authReady, isAdmin, error, loading,
                   plans, mediaItems, newPlan, uploadFile, isUploading, uploadProgress,
                   isAddingPlan, toasts, timers, plansChannelRef, mediaChannelRef,
                   backendVars, tasks, opsLeft, notified, foreign, picks, console, bootPc,
                   lastSnap, fired,
                   changedSince, loginVars, siteVars>>

\* handleDeleteMediaPrompt(mediaItem), from the asset's Delete button
handleDeleteMediaPrompt(i) ==
    /\ UIEnabled
    /\ ~ModalVisible
    /\ isAdmin
    /\ LET item == [id |-> mediaItems[i].id, type |-> "media",
                    name |-> mediaItems[i].fileName]
       IN  /\ itemToDelete' = <<item>>
    /\ showDeleteModal' = TRUE
    /\ UNCHANGED <<now, mounted, session, authPc, authReady, isAdmin, error, loading,
                   plans, mediaItems, newPlan, uploadFile, isUploading, uploadProgress,
                   isAddingPlan, toasts, timers, plansChannelRef, mediaChannelRef,
                   backendVars, tasks, opsLeft, notified, foreign, picks, console, bootPc,
                   lastSnap, fired,
                   changedSince, loginVars, siteVars>>

\* the modal's Cancel button: () => setShowDeleteModal(false)
cancelDeletion ==
    /\ ModalVisible
    /\ showDeleteModal' = FALSE
    /\ UNCHANGED <<now, mounted, session, authPc, authReady, isAdmin, error, loading,
                   plans, mediaItems, newPlan, uploadFile, isUploading, uploadProgress,
                   isAddingPlan, itemToDelete, toasts, timers, plansChannelRef,
                   mediaChannelRef, backendVars, tasks, opsLeft, notified, foreign, picks, console,
                   bootPc, historyVars,
                   changedSince, loginVars, siteVars>>

\* a confirmDeletion that starts the deletion but leaves showDeleteModal set
confirmDeletionStaysOpen ==
    /\ ModalVisible
    /\ opsLeft > 0
    /\ isAdmin
    /\ LET item == itemToDelete[1]
       IN  tasks' = tasks \cup
               {[NewTask(opsLeft, "delete", IF item.type = "plan" THEN "del" ELSE "lookup")
                    EXCEPT !.item = item]}
    /\ opsLeft' = opsLeft - 1
    /\ UNCHANGED <<now, mounted, session, authPc, reactVars, timers, plansChannelRef,
                   mediaChannelRef, backendVars, notified, foreign, picks, console,
                   bootPc, lastSnap, fired,
                   changedSince, loginVars, siteVars>>

\* the modal's Delete button: confirmDeletion up to its first await.  For a
\* plan the row delete is issued, for a media item the file_name lookup.
confirmDeletion ==
    /\ ModalVisible
    /\ opsLeft > 0
    /\ showDeleteModal' = FALSE
    /\ LET item == itemToDelete[1]
           t == [NewTask(opsLeft, "delete", IF item.type = "plan" THEN "del" ELSE "lookup")
                    EXCEPT !.item = item]
       IN  IF ~isAdmin
           THEN /\ addToast("denied", "error", <<>>)
                /\ UNCHANGED <<tasks, opsLeft>>
           ELSE /\ tasks' = tasks \cup {t}
                /\ opsLeft' = opsLeft - 1
                /\ UNCHANGED <<toasts, timers>>
    /\ UNCHANGED <<now, mounted, session, authPc, authReady, isAdmin, error, loading,
                   plans, mediaItems, newPlan, uploadFile, isUploading, uploadProgress,
                   isAddingPlan, itemToDelete, plansChannelRef, mediaChannelRef,
                   backendVars, notified, foreign, picks, console, bootPc, lastSnap, fired,
                   changedSince, loginVars, siteVars>>

\* a confirmDeletion that goes from the lookup straight to the row delete
confirmDeletion_lookedUpSkipsRemove(t) ==
    /\ t.kind = "delete"
    /\ t.pc = "lookup"
    /\ \E i \in DOMAIN dbMedia :
          /\ dbMedia[i].id = t.item.id
          /\ tasks' = (tasks \ {t}) \cup
                 {[t EXCEPT !.pc = "del", !.file = dbMedia[i].file_name]}
    /\ UNCHANGED <<now, mounted, session, authPc, reactVars, timers, plansChannelRef,
                   mediaChannelRef, backendVars, opsLeft, notified, foreign, picks,
                   console, bootPc, lastSnap, fired, changedSince, loginVars, siteVars>>

\* select('file_name').eq('id', id).single() found the row: the storage
\* remove of its path is issued
confirmDeletion_lookedUp(t) ==
    /\ t.kind = "delete"
    /\ t.pc = "lookup"
    /\ \E i \in DOMAIN dbMedia :
          /\ dbMedia[i].id = t.item.id
          /\ tasks' = (tasks \ {t}) \cup
                 {[t EXCEPT !.pc = "remove", !.file = dbMedia[i].file_name]}
    /\ UNCHANGED <<now, mounted, session, authPc, reactVars, timers, plansChannelRef,
                   mediaChannelRef, backendVars, opsLeft, notified, foreign, picks, console, bootPc,
                   lastSnap, fired,
                   changedSince, loginVars, siteVars>>

\* storage.remove([filePath]) succeeded
confirmDeletion_removed(t) ==
    /\ t.kind = "delete"
    /\ t.pc = "remove"
    /\ storage' = storage \ {StoragePath(t.file)}
    /\ tasks' = (tasks \ {t}) \cup {[t EXCEPT !.pc = "del"]}
    /\ UNCHANGED <<now, mounted, session, authPc, reactVars, timers, plansChannelRef,
                   mediaChannelRef, channels, pending, dbPlans, dbMedia, nextId,
                   opsLeft, notified, foreign, picks, console, bootPc,
                   lastSnap, fired,
                   changedSince, loginVars, siteVars>>

RowsWithout(rows, id) == SelectSeq(rows, LAMBDA r : r.id # id)

\* a confirmDeletion that treats a delete matching no row as a failure
confirmDeletion_deletedChecksCount(t) ==
    /\ t.kind = "delete"
    /\ t.pc = "del"
    /\ LET rows == IF t.item.type = "plan" THEN dbPlans ELSE dbMedia
       IN  IF RowsWithout(rows, t.item.id) = rows
           THEN /\ console' = ErrorLine("confirmDeletion", t.pc)
                /\ addToast("delete failed", "error", <<>>)
                /\ itemToDelete' = St(itemToDelete, <<>>)
                /\ tasks' = tasks \ {t}
                /\ UNCHANGED <<dbPlans, dbMedia, pending, changedSince>>
           ELSE /\ IF t.item.type = "plan"
                   THEN /\ dbPlans' = RowsWithout(dbPlans, t.item.id)
                        /\ pending' = Notified(PLANS_TABLE)
                        /\ UNCHANGED dbMedia
                   ELSE /\ dbMedia' = RowsWithout(dbMedia, t.item.id)
                        /\ pending' = Notified(MEDIA_TABLE)
                        /\ UNCHANGED dbPlans
                /\ tasks' = (tasks \ {t}) \cup {[t EXCEPT !.pc = "fetch"]}
                /\ changedSince' = [changedSince EXCEPT ![TableOf(t)] = FALSE]
                /\ UNCHANGED <<console, toasts, timers, itemToDelete>>
    /\ UNCHANGED <<now, mounted, session, authPc, authReady, isAdmin, error, loading,
                   plans, mediaItems, newPlan, uploadFile, isUploading, uploadProgress,
                   isAddingPlan, showDeleteModal, plansChannelRef, mediaChannelRef,
                   channels, storage, nextId, opsLeft, notified, foreign, picks,
                   bootPc, historyVars, loginVars, siteVars>>

\* delete().eq('id', id) reported no error (whether or not a row matched):
\* the handler goes on to await the re-fetch
confirmDeletion_deleted(t) ==
    /\ t.kind = "delete"
    /\ t.pc = "del"
    /\ IF t.item.type = "plan"
       THEN /\ dbPlans' = RowsWithout(dbPlans, t.item.id)
            /\ pending' = IF dbPlans' # dbPlans THEN Notified(PLANS_TABLE) ELSE pending
            /\ UNCHANGED dbMedia
       ELSE /\ dbMedia' = RowsWithout(dbMedia, t.item.id)
            /\ pending' = IF dbMedia' # dbMedia THEN Notified(MEDIA_TABLE) ELSE pending
            /\ UNCHANGED dbPlans
    /\ tasks' = (tasks \ {t}) \cup {[t EXCEPT !.pc = "fetch"]}
    /\ changedSince' = [changedSince EXCEPT ![IF t.item.type = "plan" THEN PLANS_TABLE ELSE MEDIA_TABLE] = FALSE]
    /\ UNCHANGED <<now, mounted, session, authPc, reactVars, timers, plansChannelRef,
                   mediaChannelRef, channels, storage, nextId, opsLeft, notified,
                   foreign, picks, console, bootPc, historyVars, loginVars, siteVars>>

\* a confirmDeletion that does not look at the storage remove's error and goes
\* on to the row delete
confirmDeletion_failedProceeds(t) ==
    /\ t.kind = "delete"
    /\ t.pc \in {"lookup", "remove", "del"}
    /\ IF t.pc = "remove"
       THEN /\ tasks' = (tasks \ {t}) \cup {[t EXCEPT !.pc = "del"]}
            /\ UNCHANGED <<console, toasts, timers, itemToDelete>>
       ELSE /\ console' = ErrorLine("confirmDeletion", t.pc)
            /\ addToast("delete failed", "error", <<>>)
            /\ itemToDelete' = St(itemToDelete, <<>>)
            /\ tasks' = tasks \ {t}
    /\ UNCHANGED <<now, mounted, session, authPc, authReady, isAdmin, error, loading,
                   plans, mediaItems, newPlan, uploadFile, isUploading, uploadProgress,
                   isAddingPlan, showDeleteModal, plansChannelRef, mediaChannelRef,
                   backendVars, opsLeft, notified, foreign, picks, bootPc,
                   lastSnap, fired,
                   changedSince, loginVars, siteVars>>

\* a backend call of confirmDeletion failed (the lookup also when no row
\* matches): catch, then finally setItemToDelete(null)
confirmDeletion_failed(t) ==
    /\ t.kind = "delete"
    /\ t.pc \in {"lookup", "remove", "del"}
    /\ console' = ErrorLine("confirmDeletion", t.pc)
    /\ addToast("delete failed", "error", <<>>)
    /\ itemToDelete' = St(itemToDelete, <<>>)
    /\ tasks' = tasks \ {t}
    /\ UNCHANGED <<now, mounted, session, authPc, authReady, isAdmin, error, loading,
                   plans, mediaItems, newPlan, uploadFile, isUploading, uploadProgress,
                   isAddingPlan, showDeleteModal, plansChannelRef, mediaChannelRef,
                   backendVars, opsLeft, notified, foreign, picks, bootPc,
                   lastSnap, fired,
                   changedSince, loginVars, siteVars>>

\* the re-fetch returned: the success toast, then finally setItemToDelete(null)
confirmDeletion_done(t) ==
    /\ t.kind = "delete"
    /\ t.pc = "fetched"
    /\ fetchSettle(t)
    /\ addToast("deleted", "success", <<>>)
    /\ itemToDelete' = St(itemToDelete, <<>>)
    /\ tasks' = tasks \ {t}
    /\ UNCHANGED <<now, mounted, session, authPc, authReady, isAdmin, loading, newPlan,
                   uploadFile, isUploading, uploadProgress, isAddingPlan,
                   showDeleteModal, plansChannelRef, mediaChannelRef, backendVars,
                   opsLeft, notified, foreign, picks, bootPc, fired,
                   changedSince, loginVars, siteVars>>

---------------------------------------------------------------------------
(* Media: the file input, upload-media *)

\* handleFileChange: a file was picked (an info toast), or the picker was
\* left without one
handleFileChange(name) ==
    /\ UIEnabled
    /\ ~isUploading
    /\ uploadFile' = name
    /\ IF name # NoText
       THEN /\ picks < MaxPicks
            /\ picks' = picks + 1
            /\ addToast("file selected", "info", <<>>)
       ELSE UNCHANGED <<toasts, timers, picks>>
    /\ UNCHANGED <<now, mounted, session, authPc, authReady, isAdmin, error, loading,
                   plans, mediaItems, newPlan, isUploading, uploadProgress,
                   isAddingPlan, showDeleteModal, itemToDelete, plansChannelRef,
                   mediaChannelRef, backendVars, tasks, opsLeft, notified, foreign, console,
                   bootPc, historyVars,
                   changedSince, loginVars, siteVars>>

\* handleMediaUpload up to its first await: the blob upload is issued
handleMediaUpload ==
    /\ UIEnabled
    /\ ~isUploading
    /\ uploadFile # NoText
    /\ opsLeft > 0
    /\ IF ~isAdmin
       THEN /\ addToast("denied", "error", <<>>)
            /\ UNCHANGED <<isUploading, uploadProgress, error, tasks, opsLeft>>
       ELSE /\ isUploading' = TRUE
            /\ uploadProgress' = 0
            /\ error' = "none"
            /\ addToast("starting upload", "info", <<>>)
            /\ tasks' = tasks \cup
                   {[NewTask(opsLeft, "upload", "upload") EXCEPT
                        !.file = SafeFileName(now, uploadFile)]}
            /\ opsLeft' = opsLeft - 1
    /\ UNCHANGED <<now, mounted, session, authPc, authReady, isAdmin, loading,
                   plans, mediaItems, newPlan, uploadFile, isAddingPlan,
                   showDeleteModal, itemToDelete, plansChannelRef, mediaChannelRef,
                   backendVars, notified, foreign, picks, console, bootPc,
                   lastSnap, fired,
                   changedSince, loginVars, siteVars>>

\* storage.upload(path, file, { upsert: false }) succeeded: the path was free.
\* The progress loop starts: PROGRESS_STEPS timers of PROGRESS_STEP_DELAY each.
handleMediaUpload_uploaded(t) ==
    /\ t.kind = "upload"
    /\ t.pc = "upload"
    /\ StoragePath(t.file) \notin storage
    /\ storage' = storage \cup {StoragePath(t.file)}
    /\ tasks' = (tasks \ {t}) \cup
           {[t EXCEPT !.pc = "progress",
                      !.wake = now + PROGRESS_STEPS * PROGRESS_STEP_DELAY]}
    /\ UNCHANGED <<now, mounted, session, authPc, reactVars, timers, plansChannelRef,
                   mediaChannelRef, channels, pending, dbPlans, dbMedia, nextId,
                   opsLeft, notified, foreign, picks, console, bootPc, historyVars,
                   changedSince, loginVars, siteVars>>

\* the progress loop ran to 100, getPublicUrl resolved the path, and the
\* catalog insert is issued with uploaded_at: new Date().toISOString()
handleMediaUpload_progress(t) ==
    /\ t.kind = "upload"
    /\ t.pc = "progress"
    /\ t.wake <= now
    /\ uploadProgress' = St(uploadProgress, 100)
    /\ tasks' = (tasks \ {t}) \cup {[t EXCEPT !.pc = "insert", !.at = now]}
    /\ UNCHANGED <<now, mounted, session, authPc, authReady, isAdmin, error, loading,
                   plans, mediaItems, newPlan, uploadFile, isUploading, isAddingPlan,
                   showDeleteModal, itemToDelete, toasts, timers, plansChannelRef,
                   mediaChannelRef, backendVars, opsLeft, notified, foreign, picks, console, bootPc,
                   historyVars,
                   changedSince, loginVars, siteVars>>

\* the catalog insert succeeded: the handler goes on to await fetchMedia()
handleMediaUpload_inserted(t) ==
    /\ t.kind = "upload"
    /\ t.pc = "insert"
    /\ dbMedia' = Append(dbMedia,
           [id |-> nextId, file_name |-> t.file, url |-> StoragePath(t.file),
            uploaded_at |-> t.at])
    /\ nextId' = nextId + 1
    /\ pending' = Notified(MEDIA_TABLE)
    /\ tasks' = (tasks \ {t}) \cup {[t EXCEPT !.pc = "fetch"]}
    /\ changedSince' = [changedSince EXCEPT ![MEDIA_TABLE] = FALSE]
    /\ UNCHANGED <<now, mounted, session, authPc, reactVars, timers, plansChannelRef,
                   mediaChannelRef, channels, dbPlans, storage, opsLeft, notified,
                   foreign, picks, console, bootPc, historyVars, loginVars, siteVars>>

\* a handleMediaUpload that does not look at the blob upload's error and goes
\* on to the progress loop and the catalog insert
handleMediaUpload_failedProceeds(t) ==
    /\ t.kind = "upload"
    /\ t.pc \in {"upload", "insert"}
    /\ IF t.pc = "upload"
       THEN /\ tasks' = (tasks \ {t}) \cup
                   {[t EXCEPT !.pc = "progress",
                              !.wake = now + PROGRESS_STEPS * PROGRESS_STEP_DELAY]}
            /\ UNCHANGED <<console, toasts, timers, isUploading>>
       ELSE /\ console' = ErrorLine("handleMediaUpload", t.pc)
            /\ addToast("upload failed", "error", <<ProgressTimer>>)
            /\ isUploading' = St(isUploading, FALSE)
            /\ tasks' = tasks \ {t}
    /\ UNCHANGED <<now, mounted, session, authPc, authReady, isAdmin, error, loading,
                   plans, mediaItems, newPlan, uploadFile, uploadProgress,
                   isAddingPlan, showDeleteModal, itemToDelete, plansChannelRef,
                   mediaChannelRef, backendVars, opsLeft, notified, foreign, picks, bootPc,
                   lastSnap, fired,
                   changedSince, loginVars, siteVars>>

\* the blob upload or the catalog insert failed: catch, then finally (the
\* uploaded object, if any, stays in the bucket)
handleMediaUpload_failed(t) ==
    /\ t.kind = "upload"
    /\ t.pc \in {"upload", "insert"}
    /\ console' = ErrorLine("handleMediaUpload", t.pc)
    /\ addToast("upload failed", "error", <<ProgressTimer>>)
    /\ isUploading' = St(isUploading, FALSE)
    /\ tasks' = tasks \ {t}
    /\ UNCHANGED <<now, mounted, session, authPc, authReady, isAdmin, error, loading,
                   plans, mediaItems, newPlan, uploadFile, uploadProgress,
                   isAddingPlan, showDeleteModal, itemToDelete, plansChannelRef,
                   mediaChannelRef, backendVars, opsLeft, notified, foreign, picks, bootPc,
                   lastSnap, fired,
                   changedSince, loginVars, siteVars>>

\* fetchMedia returned: setUploadFile(null), the success toast, finally
handleMediaUpload_done(t) ==
    /\ t.kind = "upload"
    /\ t.pc = "fetched"
    /\ fetchSettle(t)
    /\ uploadFile' = St(uploadFile, NoText)
    /\ addToast("uploaded", "success", <<ProgressTimer>>)
    /\ isUploading' = St(isUploading, FALSE)
    /\ tasks' = tasks \ {t}
    /\ UNCHANGED <<now, mounted, session, authPc, authReady, isAdmin, loading, newPlan,
                   uploadProgress, isAddingPlan, showDeleteModal, itemToDelete,
                   plansChannelRef, mediaChannelRef, backendVars, opsLeft, notified,
                   foreign, picks, bootPc, fired,
                   changedSince, loginVars, siteVars>>

---------------------------------------------------------------------------
(* Login: the sign-in form *)

\* the accounts auth.signInWithPassword accepts, and what the user may type
Accounts == {[email |-> "admin@hsv", password |-> "secret"]}
Emails == {"admin@hsv", "guest@hsv", "admin@hsv.co.ug"}
Passwords == {"secret", "guess"}

\* the messages of the errors signInWithPassword reports or throws
INVALID_CREDENTIALS == "Invalid login credentials"
FETCH_FAILED == "Failed to fetch"
Messages == {INVALID_CREDENTIALS, FETCH_FAILED}

FormEnabled == location = "/login" /\ ~isLoading

\* onChange of the email input: setEmail(e.target.value)
setEmail(text) ==
    /\ FormEnabled
    /\ email' = text
    /\ UNCHANGED <<password, loginError, isLoading, focusedField, loginTask, location,
                   now, mounted, session, authPc, reactVars, timers, plansChannelRef,
                   mediaChannelRef, backendVars, tasks, opsLeft, notified, foreign,
                   picks, console, bootPc, historyVars, changedSince, siteVars>>

\* onChange of the password input: setPassword(e.target.value)
setPassword(text) ==
    /\ FormEnabled
    /\ password' = text
    /\ UNCHANGED <<email, loginError, isLoading, focusedField, loginTask, location,
                   now, mounted, session, authPc, reactVars, timers, plansChannelRef,
                   mediaChannelRef, backendVars, tasks, opsLeft, notified, foreign,
                   picks, console, bootPc, historyVars, changedSince, siteVars>>

\* onFocus / onBlur of an input: setFocusedField('email' | 'password' | null)
setFocusedField(field) ==
    /\ FormEnabled
    /\ focusedField # field
    /\ focusedField' = field
    /\ UNCHANGED <<email, password, loginError, isLoading, loginTask, location,
                   now, mounted, session, authPc, reactVars, timers, plansChannelRef,
                   mediaChannelRef, backendVars, tasks, opsLeft, notified, foreign,
                   picks, console, bootPc, historyVars, changedSince, siteVars>>

\* handleLogin up to its await: the form's submit, which the browser allows
\* only with both required fields filled
handleLogin ==
    /\ FormEnabled
    /\ email # ""
    /\ password # ""
    /\ loginError' = <<>>
    /\ isLoading' = TRUE
    /\ loginTask' = <<[email |-> email, password |-> password]>>
    /\ UNCHANGED <<email, password, focusedField, location,
                   now, mounted, session, authPc, reactVars, timers, plansChannelRef,
                   mediaChannelRef, backendVars, tasks, opsLeft, notified, foreign,
                   picks, console, bootPc, historyVars, changedSince, siteVars>>

\* signInWithPassword reported no error: window.location.href = '/admin'
handleLogin_signedIn ==
    /\ loginTask # <<>>
    /\ loginTask[1] \in Accounts
    /\ location' = "/admin"
    /\ loginTask' = <<>>
    /\ UNCHANGED <<email, password, loginError, isLoading, focusedField,
                   now, mounted, session, authPc, reactVars, timers, plansChannelRef,
                   mediaChannelRef, backendVars, tasks, opsLeft, notified, foreign,
                   picks, console, bootPc, historyVars, changedSince, siteVars>>

\* a handleLogin whose catch shows a text of its own
handleLogin_failedGeneric(message) ==
    /\ loginTask # <<>>
    /\ message = INVALID_CREDENTIALS => loginTask[1] \notin Accounts
    /\ loginError' = <<"Login failed">>
    /\ isLoading' = FALSE
    /\ loginTask' = <<>>
    /\ UNCHANGED <<email, password, focusedField, location,
                   now, mounted, session, authPc, reactVars, timers, plansChannelRef,
                   mediaChannelRef, backendVars, tasks, opsLeft, notified, foreign,
                   picks, console, bootPc, historyVars, changedSince, siteVars>>

\* signInWithPassword reported an error, or threw: setError(err.message),
\* setIsLoading(false)
handleLogin_failed(message) ==
    /\ loginTask # <<>>
    /\ message = INVALID_CREDENTIALS => loginTask[1] \notin Accounts
    /\ loginError' = <<message>>
    /\ isLoading' = FALSE
    /\ loginTask' = <<>>
    /\ UNCHANGED <<email, password, focusedField, location,
                   now, mounted, session, authPc, reactVars, timers, plansChannelRef,
                   mediaChannelRef, backendVars, tasks, opsLeft, notified, foreign,
                   picks, console, bootPc, historyVars, changedSince, siteVars>>

LoginPage ==
    \/ \E text \in Emails \cup {""} : setEmail(text)
    \/ \E text \in Passwords \cup {""} : setPassword(text)
    \/ \E field \in {"none", "email", "password"} : setFocusedField(field)
    \/ handleLogin
    \/ handleLogin_signedIn
    \/ \E message \in Messages : handleLogin_failed(message)

---------------------------------------------------------------------------
(* ContactForm: the inquiry form *)

HONEYPOT_RESET_DELAY == 2000     \* setTimeout(() => setStatus('idle'), 2000)
ERROR_RESET_DELAY == 3000        \* setTimeout(() => setStatus('idle'), 3000)
SUBMIT_DELAY == 1200             \* the simulated submission
SUCCESS_RESET_DELAY == 5000      \* setTimeout(() => setStatus('idle'), 5000)

\* what the fields may hold; the select has no option that sets '' again
FieldValues ==
    [name |-> {"", "Ann"}, email |-> {"", "ann@hsv"}, organization |-> {"", "HSV"},
     topic |-> {HMS_TOPIC}, message |-> {"", "Hello"},
     hp |-> {"", "bot"}]
Fields == DOMAIN FieldValues

\* several setStatus calls of one event handler are applied together: the
\* component renders the last one only
Batched(old, updates) == IF updates = <<>> THEN old ELSE updates[Len(updates)]

\* a setTimeout callback that is waiting: the status it sets, the form data it
\* sets (if it does), the delay of the timer it starts in turn (0: none), and
\* the submit event that started it
Timeout(delay, newStatus, form, next, cause) ==
    [due |-> now + delay, status |-> newStatus, form |-> form, next |-> next,
     from |-> submits + 1, cause |-> cause]

\* the submit button: disabled={isSubmitting}
SubmitEnabled == status # "submitting"

\* handleChange: setFormData({...formData, [e.target.name]: e.target.value})
handleChange(field, value) ==
    /\ formData[field] # value
    /\ formData' = [formData EXCEPT ![field] = value]
    /\ UNCHANGED <<contactVariant, status, contactTimers, logged, submits, galleryVars,
                   now, mounted, session, authPc, reactVars, timers, plansChannelRef,
                   mediaChannelRef, backendVars, tasks, opsLeft, notified, foreign,
                   picks, console, bootPc, historyVars, changedSince, loginVars>>

\* a validation that lets an empty message through
MissingRequiredButMessage(fd) ==
    fd.name = "" \/ fd.email = "" \/ fd.topic = ""

\* the "Basic validation" of ContactForm.tsx fails
MissingRequired(fd) ==
    fd.name = "" \/ fd.email = "" \/ fd.topic = "" \/ fd.message = ""

\* the validation of part_000 fails: it does not look at the topic
MissingRequired_part_000(fd) ==
    fd.name = "" \/ fd.email = "" \/ fd.message = ""

\* a handleSubmit that has no honeypot branch
handleSubmitNoHoneypot ==
    /\ contactVariant = CONTACT_FORM
    /\ SubmitEnabled
    /\ submits < MaxSubmits
    /\ submits' = submits + 1
    /\ IF MissingRequired(formData)
       THEN /\ status' = Batched(status, <<"error">>)
            /\ contactTimers' = Append(contactTimers,
                   Timeout(ERROR_RESET_DELAY, "idle", <<>>, 0, "invalid"))
       ELSE /\ status' = Batched(status, <<"submitting">>)
            /\ contactTimers' = Append(contactTimers,
                   Timeout(SUBMIT_DELAY, "success", <<EmptyFormData(CONTACT_FORM)>>,
                           SUCCESS_RESET_DELAY, "valid"))
    /\ UNCHANGED <<contactVariant, formData, logged, galleryVars,
                   now, mounted, session, authPc, reactVars, timers, plansChannelRef,
                   mediaChannelRef, backendVars, tasks, opsLeft, notified, foreign,
                   picks, console, bootPc, historyVars, changedSince, loginVars>>

\* handleSubmit of ContactForm.tsx: the form's submit event (noValidate: the
\* browser checks nothing), which the disabled button withholds
handleSubmit ==
    /\ contactVariant = CONTACT_FORM
    /\ SubmitEnabled
    /\ submits < MaxSubmits
    /\ submits' = submits + 1
    /\ IF formData.hp # ""
       THEN /\ status' = Batched(status, <<"success">>)
            /\ contactTimers' = Append(contactTimers,
                   Timeout(HONEYPOT_RESET_DELAY, "idle", <<>>, 0, "honeypot"))
       ELSE IF MissingRequired(formData)
       THEN /\ status' = Batched(status, <<"error">>)
            /\ contactTimers' = Append(contactTimers,
                   Timeout(ERROR_RESET_DELAY, "idle", <<>>, 0, "invalid"))
       ELSE /\ status' = Batched(status, <<"submitting">>)
            /\ contactTimers' = Append(contactTimers,
                   Timeout(SUBMIT_DELAY, "success", <<EmptyFormData(CONTACT_FORM)>>,
                           SUCCESS_RESET_DELAY, "valid"))
    /\ UNCHANGED <<contactVariant, formData, logged, galleryVars,
                   now, mounted, session, authPc, reactVars, timers, plansChannelRef,
                   mediaChannelRef, backendVars, tasks, opsLeft, notified, foreign,
                   picks, console, bootPc, historyVars, changedSince, loginVars>>

\* what part_000 writes with console.log: the form data without the honeypot
LoggedData(fd) ==
    [name |-> fd.name, email |-> fd.email, organization |-> fd.organization,
     topic |-> fd.topic, message |-> fd.message]

\* handleSubmit of part_000: setStatus('submitting') comes before the
\* validation, and a valid submission is logged
handleSubmit_part_000 ==
    /\ contactVariant = PART_000
    /\ SubmitEnabled
    /\ submits < MaxSubmits
    /\ submits' = submits + 1
    /\ IF formData.hp # ""
       THEN /\ status' = Batched(status, <<"success">>)
            /\ contactTimers' = Append(contactTimers,
                   Timeout(HONEYPOT_RESET_DELAY, "idle", <<>>, 0, "honeypot"))
            /\ UNCHANGED logged
       ELSE IF MissingRequired_part_000(formData)
       THEN /\ status' = Batched(status, <<"submitting", "error">>)
            /\ contactTimers' = Append(contactTimers,
                   Timeout(ERROR_RESET_DELAY, "idle", <<>>, 0, "invalid"))
            /\ UNCHANGED logged
       ELSE /\ status' = Batched(status, <<"submitting">>)
            /\ logged' = Append(logged, LoggedData(formData))
            /\ contactTimers' = Append(contactTimers,
                   Timeout(SUBMIT_DELAY, "success", <<EmptyFormData(PART_000)>>,
                           SUCCESS_RESET_DELAY, "valid"))
    /\ UNCHANGED <<contactVariant, formData, galleryVars,
                   now, mounted, session, authPc, reactVars, timers, plansChannelRef,
                   mediaChannelRef, backendVars, tasks, opsLeft, notified, foreign,
                   picks, console, bootPc, historyVars, changedSince, loginVars>>

\* the browser runs the callbacks in the order of their due times, and those
\* of one due time in the order they were set
NextTimeout(i) ==
    \A j \in DOMAIN contactTimers :
        \/ contactTimers[j].due > contactTimers[i].due
        \/ contactTimers[j].due = contactTimers[i].due /\ j >= i

\* a setTimeout callback runs: () => setStatus('idle'), or the completion of
\* the simulated submission, which sets success, resets the form data and
\* starts the timer of its own reset
timeout(i) ==
    /\ contactTimers[i].due <= now
    /\ NextTimeout(i)
    /\ status' = contactTimers[i].status
    /\ formData' = IF contactTimers[i].form = <<>> THEN formData
                   ELSE contactTimers[i].form[1]
    /\ contactTimers' =
           Without(contactTimers, i) \o
           (IF contactTimers[i].next = 0 THEN <<>>
            ELSE << [due |-> now + contactTimers[i].next, status |-> "idle",
                     form |-> <<>>, next |-> 0, from |-> contactTimers[i].from,
                     cause |-> "done"] >>)
    /\ UNCHANGED <<contactVariant, logged, submits, galleryVars,
                   now, mounted, session, authPc, reactVars, timers, plansChannelRef,
                   mediaChannelRef, backendVars, tasks, opsLeft, notified, foreign,
                   picks, console, bootPc, historyVars, changedSince, loginVars>>

ContactPage ==
    \/ \E field \in Fields : \E value \in FieldValues[field] : handleChange(field, value)
    \/ handleSubmit
    \/ handleSubmit_part_000
    \/ \E i \in DOMAIN contactTimers : timeout(i)

---------------------------------------------------------------------------
(* ImmersedGallery: the thumbnails and the lightbox *)

IMAGES == 22                 \* IMMERSED_IMAGES.length
SWIPE_THRESHOLD == 50        \* if (diff > 50) ... if (diff < -50) ...

\* where a touch may begin and end (screenX)
ScreenXs == {0, 50, 101}
Keys == {"Escape", "ArrowRight", "ArrowLeft", "Enter"}

\* the % of JavaScript: the result has the sign of the dividend
JsRem(a, n) == IF a >= 0 THEN a % n ELSE -((-a) % n)

\* i => (i === null ? 0 : (i + 1) % IMMERSED_IMAGES.length)
nextUpdater(i) == IF i = <<>> THEN <<0>> ELSE <<JsRem(i[1] + 1, IMAGES)>>

\* a previous-image updater that leaves the + IMMERSED_IMAGES.length out
prevUpdaterNoWrap(i) ==
    IF i = <<>> THEN <<IMAGES - 1>> ELSE <<JsRem(i[1] - 1, IMAGES)>>

\* i => (i === null ? IMMERSED_IMAGES.length - 1
\*                  : (i - 1 + IMMERSED_IMAGES.length) % IMMERSED_IMAGES.length)
prevUpdater(i) ==
    IF i = <<>> THEN <<IMAGES - 1>> ELSE <<JsRem(i[1] - 1 + IMAGES, IMAGES)>>

\* the lightbox is rendered (openIndex !== null), and with it the listener for
\* keydown that the effect adds
LightboxOpen == openIndex # <<>>

\* the effect of [openIndex], run when the value has changed: the page's
\* scrolling is locked while the lightbox is open; on closing, the focus goes
\* back and lastFocusedRef is cleared
effect(focused) ==
    IF openIndex' = openIndex
    THEN /\ lastFocusedRef' = focused
         /\ UNCHANGED bodyOverflow
    ELSE IF openIndex' = <<>>
    THEN /\ bodyOverflow' = ""
         /\ lastFocusedRef' = <<>>
    ELSE /\ bodyOverflow' = "hidden"
         /\ lastFocusedRef' = focused

\* a thumbnail's onClick: lastFocusedRef.current = e.currentTarget; setOpenIndex(idx)
thumbnailClick(idx) ==
    /\ openIndex' = <<idx>>
    /\ effect(<<idx>>)
    /\ UNCHANGED <<touchStartX, contactVars,
                   now, mounted, session, authPc, reactVars, timers, plansChannelRef,
                   mediaChannelRef, backendVars, tasks, opsLeft, notified, foreign,
                   picks, console, bootPc, historyVars, changedSince, loginVars>>

\* the backdrop's and the close button's onClick: setOpenIndex(null)
closeLightbox ==
    /\ LightboxOpen
    /\ openIndex' = <<>>
    /\ effect(lastFocusedRef)
    /\ UNCHANGED <<touchStartX, contactVars,
                   now, mounted, session, authPc, reactVars, timers, plansChannelRef,
                   mediaChannelRef, backendVars, tasks, opsLeft, notified, foreign,
                   picks, console, bootPc, historyVars, changedSince, loginVars>>

\* the "Next image" button
nextImage ==
    /\ LightboxOpen
    /\ openIndex' = nextUpdater(openIndex)
    /\ effect(lastFocusedRef)
    /\ UNCHANGED <<touchStartX, contactVars,
                   now, mounted, session, authPc, reactVars, timers, plansChannelRef,
                   mediaChannelRef, backendVars, tasks, opsLeft, notified, foreign,
                   picks, console, bootPc, historyVars, changedSince, loginVars>>

\* the "Previous image" button
prevImage ==
    /\ LightboxOpen
    /\ openIndex' = prevUpdater(openIndex)
    /\ effect(lastFocusedRef)
    /\ UNCHANGED <<touchStartX, contactVars,
                   now, mounted, session, authPc, reactVars, timers, plansChannelRef,
                   mediaChannelRef, backendVars, tasks, opsLeft, notified, foreign,
                   picks, console, bootPc, historyVars, changedSince, loginVars>>

\* a navigation dot's onClick: setOpenIndex(i)
dotClick(i) ==
    /\ LightboxOpen
    /\ openIndex' = <<i>>
    /\ effect(lastFocusedRef)
    /\ UNCHANGED <<touchStartX, contactVars,
                   now, mounted, session, authPc, reactVars, timers, plansChannelRef,
                   mediaChannelRef, backendVars, tasks, opsLeft, notified, foreign,
                   picks, console, bootPc, historyVars, changedSince, loginVars>>

\* what handleKey's three tests make of the index, one after the other
AfterKey(key, i) ==
    LET a == IF key = "Escape" THEN <<>> ELSE i
        b == IF key = "ArrowRight" THEN nextUpdater(a) ELSE a
    IN  IF key = "ArrowLeft" THEN prevUpdater(b) ELSE b

\* handleKey: a keydown while the listener is attached
handleKey(key) ==
    /\ LightboxOpen
    /\ openIndex' = AfterKey(key, openIndex)
    /\ effect(lastFocusedRef)
    /\ UNCHANGED <<touchStartX, contactVars,
                   now, mounted, session, authPc, reactVars, timers, plansChannelRef,
                   mediaChannelRef, backendVars, tasks, opsLeft, notified, foreign,
                   picks, console, bootPc, historyVars, changedSince, loginVars>>

\* handleTouchStart, on the lightbox
handleTouchStart(x) ==
    /\ LightboxOpen
    /\ touchStartX' = <<x>>
    /\ UNCHANGED <<openIndex, lastFocusedRef, bodyOverflow, contactVars,
                   now, mounted, session, authPc, reactVars, timers, plansChannelRef,
                   mediaChannelRef, backendVars, tasks, opsLeft, notified, foreign,
                   picks, console, bootPc, historyVars, changedSince, loginVars>>

\* what handleTouchEnd's two tests make of the index
AfterSwipe(start, end, i) ==
    IF start = <<>> THEN i
    ELSE LET diff == start[1] - end
             a == IF diff > SWIPE_THRESHOLD THEN nextUpdater(i) ELSE i
         IN  IF diff < -SWIPE_THRESHOLD THEN prevUpdater(a) ELSE a

\* handleTouchEnd, on the lightbox
handleTouchEnd(x) ==
    /\ LightboxOpen
    /\ openIndex' = AfterSwipe(touchStartX, x, openIndex)
    /\ effect(lastFocusedRef)
    /\ touchStartX' = <<>>
    /\ UNCHANGED <<contactVars,
                   now, mounted, session, authPc, reactVars, timers, plansChannelRef,
                   mediaChannelRef, backendVars, tasks, opsLeft, notified, foreign,
                   picks, console, bootPc, historyVars, changedSince, loginVars>>

GalleryPage ==
    \/ \E idx \in 0..(IMAGES - 1) : thumbnailClick(idx)
    \/ closeLightbox
    \/ nextImage
    \/ prevImage
    \/ \E i \in 0..(IMAGES - 1) : dotClick(i)
    \/ \E key \in Keys : handleKey(key)
    \/ \E x \in ScreenXs : handleTouchStart(x)
    \/ \E x \in ScreenXs : handleTouchEnd(x)

---------------------------------------------------------------------------
(* The dashboard *)

BasicForm ==
    [name |-> <<"B","a","s","i","c">>, price |-> <<"$","1","0">>,
     features |-> <<"W","i","f","i",","," ","S","u","p","p","o","r","t">>,
     isPrimary |-> FALSE]
Forms == {BasicForm}

MyPhoto == <<"M","y"," ","P","h","o","t","o","!",".","p","n","g">>
Files == {MyPhoto}

\* the session check, the initial load and every fetch's completion
Loading ==
    \/ authResolve
    \/ \E t \in tasks, ok \in BOOLEAN : fetchRead(t, ok)
    \/ \E t \in tasks : fetchDone(t)
    \/ \E t \in tasks, subscribed \in BOOLEAN : bootDone(t, subscribed)

Realtime ==
    \E table \in Tables : notify(table)

OtherClients ==
    \/ otherClientInsertPlan
    \/ \E i \in DOMAIN dbPlans : otherClientDeletePlan(i)
    \/ \E i \in DOMAIN dbMedia : otherClientDeleteMedia(i)

\* the clock, the toasts' removal timers and their dismiss buttons
ToastTimers ==
    \/ \E i \in DOMAIN timers : toastExpire(i)
    \/ \E i \in DOMAIN toasts : removeToast(toasts[i].id)
    \/ \E d \in TickSteps : Tick(d)

Timers ==
    \/ ToastTimers
    \/ \E i \in DOMAIN timers : progressReset(i)

AddPlan(forms) ==
    \/ \E form \in forms : handleNewPlanChange(form)
    \/ handleAddPlan
    \/ \E t \in tasks : handleAddPlan_inserted(t)
    \/ \E t \in tasks : handleAddPlan_failed(t)
    \/ \E t \in tasks : handleAddPlan_done(t)

Deletion ==
    \/ \E i \in DOMAIN plans : handleDeletePlanPrompt(i)
    \/ \E i \in DOMAIN mediaItems : handleDeleteMediaPrompt(i)
    \/ cancelDeletion
    \/ confirmDeletion
    \/ \E t \in tasks : confirmDeletion_lookedUp(t)
    \/ \E t \in tasks : confirmDeletion_removed(t)
    \/ \E t \in tasks : confirmDeletion_deleted(t)
    \/ \E t \in tasks : confirmDeletion_failed(t)
    \/ \E t \in tasks : confirmDeletion_done(t)

Upload(files) ==
    \/ \E name \in files \cup {NoText} : handleFileChange(name)
    \/ handleMediaUpload
    \/ \E t \in tasks : handleMediaUpload_uploaded(t)
    \/ \E t \in tasks : handleMediaUpload_progress(t)
    \/ \E t \in tasks : handleMediaUpload_inserted(t)
    \/ \E t \in tasks : handleMediaUpload_failed(t)
    \/ \E t \in tasks : handleMediaUpload_done(t)

Next ==
    \/ Loading
    \/ Realtime
    \/ unmount
    \/ OtherClients
    \/ Timers
    \/ AddPlan(Forms)
    \/ Deletion
    \/ Upload(Files)
    \/ LoginPage
    \/ ContactPage
    \/ GalleryPage

Spec == Init /\ [][Next]_vars

---------------------------------------------------------------------------
(* The gate *)

\* what the component renders first: if (!authReady) ...; if (!isAdmin) ...
Gate ==
    IF ~authReady THEN "initializing"
    ELSE IF ~isAdmin THEN "unauthorized"
    ELSE "authorized"

\* a page opened with any session, left alone by the user; other clients
\* change the tables and the page may be torn down at any moment
InitGate == InitWith({"user", "none", "throws"}, {SeedPlans}, {SeedMedia}, 0)

NextGate ==
    \/ Loading
    \/ Realtime
    \/ unmount
    \/ OtherClients

SpecGate == InitGate /\ [][NextGate]_vars

GateStates == {"initializing", "unauthorized", "authorized"}

\* C10: the gate is always one of initializing, unauthorized, authorized; it
\* is initializing while the session check is pending; once the check has
\* resolved or thrown, the gate of the mounted component is authorized exactly
\* when the session carried a user and unauthorized otherwise; and a gate
\* that has left initializing never returns to it.
C10_GateFollowsSession ==
    /\ [](/\ Gate \in GateStates
          /\ authPc = "pending" => Gate = "initializing"
          /\ (mounted /\ authPc = "done") =>
                Gate = (IF session = "user" THEN "authorized" ELSE "unauthorized"))
    /\ [][Gate # "initializing" => Gate' # "initializing"]_vars

\* the session check threw and the gate went to unauthorized
C10_Witness ==
    /\ mounted
    /\ authPc = "done"
    /\ session = "throws"
    /\ Gate = "unauthorized"

---------------------------------------------------------------------------
(* Deletions *)

\* an administrator's page on which plans and media items are deleted, up to
\* MaxOps deletions in flight or in sequence
InitDeletion == InitWith({"user"}, {SeedPlans}, {SeedMedia}, MaxOps)

NextDeletion ==
    \/ Loading
    \/ Realtime
    \/ unmount
    \/ ToastTimers
    \/ Deletion

SpecDeletion == InitDeletion /\ [][NextDeletion]_vars

\* the step is one of deletion t's destructive calls taking effect: the plan
\* row delete, the storage remove, or the media row delete, for t's item
DestructiveCallOf(t) ==
    /\ t.kind = "delete"
    /\ \/ /\ t.item.type = "plan"
          /\ t.pc = "del"
          /\ dbPlans' = RowsWithout(dbPlans, t.item.id)
          /\ UNCHANGED <<dbMedia, storage>>
       \/ /\ t.item.type = "media"
          /\ t.pc = "remove"
          /\ \E i \in DOMAIN dbMedia :
                /\ dbMedia[i].id = t.item.id
                /\ storage' = storage \ {StoragePath(dbMedia[i].file_name)}
          /\ UNCHANGED <<dbPlans, dbMedia>>
       \/ /\ t.item.type = "media"
          /\ t.pc = "del"
          /\ dbMedia' = RowsWithout(dbMedia, t.item.id)
          /\ UNCHANGED <<dbPlans, storage>>

RowIds(rows) == {rows[i].id : i \in DOMAIN rows}

SomethingRemoved ==
    \/ ~(RowIds(dbPlans) \subseteq RowIds(dbPlans'))
    \/ ~(RowIds(dbMedia) \subseteq RowIds(dbMedia'))
    \/ ~(storage \subseteq storage')

\* C1: a deletion (and with it every destructive backend call: the plan row
\* delete, the storage remove, the media row delete) starts only in a step
\* that is a press of Delete in the visible modal, for the item the modal
\* shows; the modal's item is only ever set by a prompt opened for that item;
\* a deletion keeps its item; nothing leaves the remote store except by a
\* destructive call of a deletion, for its item; and a press of Cancel
\* starts no backend call and leaves the plans mirror, the media mirror and
\* the remote store unchanged.
C1_DeleteOnlyAfterConfirm ==
    [][ /\ \A t \in tasks' :
              (t.kind = "delete" /\ ~(\E u \in tasks : u.op = t.op)) =>
                  /\ confirmDeletion
                  /\ ModalVisible
                  /\ itemToDelete = <<t.item>>
        /\ (itemToDelete' # itemToDelete /\ itemToDelete' # <<>>) =>
              \/ \E i \in DOMAIN plans :
                    /\ handleDeletePlanPrompt(i)
                    /\ itemToDelete'[1].type = "plan"
                    /\ itemToDelete'[1].id = plans[i].id
              \/ \E i \in DOMAIN mediaItems :
                    /\ handleDeleteMediaPrompt(i)
                    /\ itemToDelete'[1].type = "media"
                    /\ itemToDelete'[1].id = mediaItems[i].id
        /\ \A t \in tasks, u \in tasks' : u.op = t.op => u.item = t.item
        /\ SomethingRemoved => \E t \in tasks : DestructiveCallOf(t)
        /\ cancelDeletion =>
              /\ tasks' = tasks
              /\ UNCHANGED <<plans, mediaItems, dbPlans, dbMedia, storage>>
      ]_vars

\* a media deletion, confirmed in the modal, has removed the object and the row
C1_Witness ==
    \E t \in tasks :
        /\ t.kind = "delete"
        /\ t.item.type = "media"
        /\ t.pc = "fetch"
        /\ ~(\E i \in DOMAIN dbMedia : dbMedia[i].id = t.item.id)
        /\ StoragePath(t.file) \notin storage

ErrorToast(message) == [id |-> DigitsOf(now), message |-> message, type |-> "error"]

\* C2: in the step in which the storage remove of a confirmed media deletion
\* comes back with an error, the deletion ends (so it never issues the catalog
\* row delete and never adds its success toast), the catalog rows and the
\* stored objects are left as they are, and the mounted component gains
\* exactly one toast, the error toast.  A deletion that has ended does not
\* come back: the operations in flight are numbered above those still to start.
C2_StorageFailureKeepsRow ==
    /\ [](\A u \in tasks : u.op > 0 => u.op > opsLeft)
    /\ [][\A t \in tasks :
            (confirmDeletion_failed(t) /\ t.item.type = "media" /\ t.pc = "remove") =>
                /\ ~(\E u \in tasks' : u.op = t.op)
                /\ opsLeft' = opsLeft
                /\ UNCHANGED <<dbMedia, dbPlans, storage>>
                /\ mounted => toasts' = Append(toasts, ErrorToast("delete failed"))
         ]_vars

\* the storage remove of a media deletion failed: the error is logged and
\* shown, the row and the object are still there, no deletion is in flight
C2_Witness ==
    /\ console = ErrorLine("confirmDeletion", "remove")
    /\ mounted
    /\ \E i \in DOMAIN toasts : toasts[i].type = "error"
    /\ ~(\E i \in DOMAIN toasts : toasts[i].type = "success")
    /\ dbMedia = SeedMedia
    /\ StoragePath(SeedMedia[1].file_name) \in storage
    /\ ~(\E t \in tasks : t.kind = "delete")

---------------------------------------------------------------------------
(* The four operations and their failures *)

\* an administrator's page on which one operation of any kind is carried out
InitOps == InitWith({"user"}, {SeedPlans}, {SeedMedia}, 1)

NextOps ==
    \/ Loading
    \/ Realtime
    \/ unmount
    \/ \E d \in TickSteps : Tick(d)
    \/ AddPlan(Forms)
    \/ Deletion
    \/ Upload(Files)

SpecOps == InitOps /\ [][NextOps]_vars

Toast(message, type) == [id |-> DigitsOf(now), message |-> message, type |-> type]

\* the step ends operation t with exactly one more toast, of the given type
EndsWith(t, message, type) ==
    /\ ~(\E u \in tasks' : u.op = t.op)
    /\ mounted => toasts' = Append(toasts, Toast(message, type))

\* in this step a mutation call of operation t (insert, upload, lookup,
\* storage remove, row delete) comes back with an error
MutationFails(t) ==
    \/ handleAddPlan_failed(t)
    \/ handleMediaUpload_failed(t)
    \/ confirmDeletion_failed(t)

FailureMessage(t) ==
    CASE t.kind = "addPlan" -> "add failed"
      [] t.kind = "upload"  -> "upload failed"
      [] t.kind = "delete"  -> "delete failed"

SuccessMessage(t) ==
    CASE t.kind = "addPlan" -> "added"
      [] t.kind = "upload"  -> "uploaded"
      [] t.kind = "delete"  -> "deleted"

\* in this step operation t resumes after its closing re-fetch, which failed
RefetchFails(t) ==
    /\ t.kind \in {"addPlan", "upload", "delete"}
    /\ t.pc = "fetched"
    /\ ~t.snap.ok
    /\ t \notin tasks'

\* C3 (as amended): a failure of a mutation call made during add-plan,
\* upload-media, delete-plan or delete-media is caught: the operation ends
\* with one more toast, an error toast, and without a success toast.  A
\* failure of the re-fetch that closes the operation is caught inside the
\* fetch: the error banner is set, and the operation ends with its success
\* toast and without an error toast.
C3_FailuresCaught ==
    [][\A t \in tasks :
          /\ MutationFails(t) => EndsWith(t, FailureMessage(t), "error")
          /\ RefetchFails(t) =>
                /\ EndsWith(t, SuccessMessage(t), "success")
                /\ mounted => error' \in {"plans", "media"}
      ]_vars

\* C3 (as claimed): every failure, that of the closing re-fetch included,
\* ends the operation with an error toast and without a success toast.
C3_AsClaimed ==
    [][\A t \in tasks :
          (MutationFails(t) \/ RefetchFails(t)) =>
              EndsWith(t, FailureMessage(t), "error")
      ]_vars

\* an add-plan whose insert succeeded and whose closing re-fetch failed: the
\* banner is set and the last toast is the success toast
C3_Witness ==
    /\ mounted
    /\ console = ErrorLine("fetchPlans", "select")
    /\ error = "plans"
    /\ Len(dbPlans) = Len(SeedPlans) + 1
    /\ toasts # <<>>
    /\ toasts[Len(toasts)].message = "added"
    /\ toasts[Len(toasts)].type = "success"
    /\ tasks = {}

---------------------------------------------------------------------------
(* The order of the plans mirror *)

\* the plans table as any list of up to MaxRows rows, each primary or not,
\* each without a creation time or created at an instant up to MaxCreated
CreatedAts == {NoTime} \cup (0 .. MaxCreated)

PlanRow(id, primary, created) ==
    [id |-> id, name |-> <<"P">>, price |-> <<"1">>, features |-> <<"x">>,
     is_primary |-> primary, created_at |-> created]

PlanTables ==
    UNION { { [i \in 1 .. n |-> PlanRow(i, f[i][1], f[i][2])] :
                f \in [1 .. n -> BOOLEAN \X CreatedAts] } : n \in 0 .. MaxRows }

InitFetch == InitWith({"user"}, PlanTables, {SeedMedia}, 0)

NextFetch ==
    \/ Loading
    \/ Realtime
    \/ unmount
    \/ OtherClients

SpecFetch == InitFetch /\ [][NextFetch]_vars

\* C4: in the plans mirror every primary plan comes before every non-primary
\* plan, and among the primary plans, as among the others, a plan created
\* earlier comes first, a missing creation time counting as 0.
C4_PlansOrdered ==
    \A i, j \in DOMAIN plans :
        i < j =>
            /\ plans[j].isPrimary => plans[i].isPrimary
            /\ plans[i].isPrimary = plans[j].isPrimary =>
                  SecondsOrZero(plans[i]) <= SecondsOrZero(plans[j])

\* a mirror of three plans, primary and not, one of them without a creation
\* time, that the sort has put in another order than the table's
C4_Witness ==
    /\ Len(plans) = 3
    /\ plans[1].isPrimary
    /\ ~plans[3].isPrimary
    /\ \E i \in DOMAIN plans : plans[i].createdAt = <<>>
    /\ <<plans[1].id, plans[2].id, plans[3].id>> # <<1, 2, 3>>
    /\ Len(dbPlans) = 3

---------------------------------------------------------------------------
(* Adding a plan *)

WifiSupport == <<"W","i","f","i",","," ","S","u","p","p","o","r","t">>

GoldForm ==
    [name |-> <<" ","G","o","l","d">>, price |-> <<"5">>,
     features |-> <<",","a"," ",","," ","b",",">>, isPrimary |-> TRUE]

PlanForms == {BasicForm, GoldForm}

\* an administrator's page on which one plan is added, while another client
\* may change the table
InitPlans == InitWith({"user"}, {SeedPlans}, {SeedMedia}, 1)

NextPlans ==
    \/ Loading
    \/ Realtime
    \/ unmount
    \/ OtherClients
    \/ \E d \in TickSteps : Tick(d)
    \/ AddPlan(PlanForms)

SpecPlans == InitPlans /\ [][NextPlans]_vars

\* the step is add-plan t resuming after its re-fetch succeeded, in the
\* mounted component.  (The form's inputs are disabled while the submission
\* is in flight, so newPlan is still the submitted form.)
AddPlanCompletes(t) ==
    /\ handleAddPlan_done(t)
    /\ t.snap.ok
    /\ mounted

\* the re-fetch of add-plan t returned the table as it was at submission
\* followed by the row t inserted
OnlyOwnInsert(t) ==
    /\ Len(t.snap.rows) = Len(t.base) + 1
    /\ SubSeq(t.snap.rows, 1, Len(t.base)) = t.base
    /\ LET r == t.snap.rows[Len(t.snap.rows)] IN r = StoredPlan(t.row, r.id)

\* the mirror after the step has one entry more than at t's submission, and
\* its one entry that is new has the submitted features and primary flag
OneMoreEntry(t) ==
    /\ Len(plans') = Len(t.before) + 1
    /\ \E k \in DOMAIN plans' :
          /\ \A j \in DOMAIN plans' :
                (\A i \in DOMAIN t.before : t.before[i].id # plans'[j].id) <=> j = k
          /\ plans'[k].features = ParseFeatures(newPlan.features)
          /\ plans'[k].isPrimary = newPlan.isPrimary
          /\ newPlan.features = WifiSupport =>
                plans'[k].features = << <<"W","i","f","i">>, <<"S","u","p","p","o","r","t">> >>

\* C5 (as amended): after an add-plan submission whose insert and re-fetch
\* both succeed, made while the plans mirror held exactly the rows of the
\* remote table, and with no other change to that table between submission
\* and re-fetch, the plans mirror contains exactly one more entry than at
\* submission, and that entry's feature list is the ordered trimmed
\* non-empty comma segments of the submitted feature text ("Wifi, Support"
\* gives ["Wifi", "Support"]) and its primary flag equals the submitted flag.
C5_OneMoreEntry ==
    [][\A t \in tasks :
          (AddPlanCompletes(t) /\ t.before = FetchedPlans(t.base) /\ OnlyOwnInsert(t))
              => OneMoreEntry(t)
      ]_vars

\* C5 (as claimed): after an add-plan submission whose insert and re-fetch
\* both succeed, with no change by another client, the plans mirror contains
\* exactly one more entry than before, with the submitted features and flag.
C5_AsClaimed ==
    [][\A t \in tasks :
          (AddPlanCompletes(t) /\ foreign = 0) => OneMoreEntry(t)
      ]_vars

\* the plan of the scenario was added to a mirror that was in step: the seed
\* plan and the new entry, not primary, with features Wifi and Support
C5_Witness ==
    /\ mounted
    /\ tasks = {}
    /\ foreign = 0
    /\ console = <<>>
    /\ Len(plans) = Len(SeedPlans) + 1
    /\ \E k \in DOMAIN plans :
          /\ plans[k].name = BasicForm.name
          /\ ~plans[k].isPrimary
          /\ plans[k].features = << <<"W","i","f","i">>, <<"S","u","p","p","o","r","t">> >>

---------------------------------------------------------------------------
(* The stored feature text *)

FeatureChars == {"a", "b", ",", " "}

\* every text of up to n characters over the alphabet
TextsUpTo(chars, n) == UNION { [1 .. k -> chars] : k \in 0 .. n }

FeatureExample == <<"a", ",", " ", ",", "b", ",", ",", "c", " ">>

\* the form with every non-empty feature text of up to MaxLen characters,
\* and with the text "a, ,b,,c "
FeatureForms ==
    { [name |-> <<"n">>, price |-> <<"1">>, features |-> text, isPrimary |-> FALSE] :
        text \in (TextsUpTo(FeatureChars, MaxLen) \ {NoText}) \cup {FeatureExample} }

InitFeatures == InitWith({"user"}, {SeedPlans}, {SeedMedia}, 1)

\* the user fills the empty form once and submits it
NextFeatures ==
    \/ Loading
    \/ newPlan = EmptyForm /\ \E form \in FeatureForms : handleNewPlanChange(form)
    \/ handleAddPlan
    \/ \E t \in tasks : handleAddPlan_inserted(t)
    \/ \E t \in tasks : handleAddPlan_failed(t)
    \/ \E t \in tasks : handleAddPlan_done(t)

SpecFeatures == InitFeatures /\ [][NextFeatures]_vars

\* The claim's reading of a feature text x, by positions: the cuts are the
\* commas and the two ends, a segment lies between two neighbouring cuts,
\* it is trimmed to the stretch from its first to its last non-blank
\* character, and the trimmed segments that are not empty are joined, in
\* their order, by a comma and a space.
Cuts(x) == {0} \cup {i \in DOMAIN x : x[i] = ","} \cup {Len(x) + 1}

Min(S) == CHOOSE a \in S : \A b \in S : a <= b

SegmentAfter(x, cut) == SubSeq(x, cut + 1, Min({c \in Cuts(x) : c > cut}) - 1)

Stripped(seg) ==
    LET inked == {i \in DOMAIN seg : seg[i] # " "}
    IN  IF inked = {} THEN <<>> ELSE SubSeq(seg, Min(inked), Max(inked))

KeptCuts(x) == {c \in Cuts(x) : c <= Len(x) /\ Stripped(SegmentAfter(x, c)) # <<>>}

RECURSIVE JoinedFrom(_, _)
JoinedFrom(x, cuts) ==
    IF cuts = {} THEN <<>>
    ELSE LET c == Min(cuts)
         IN  Stripped(SegmentAfter(x, c))
                 \o (IF cuts = {c} THEN <<>> ELSE <<",", " ">> \o JoinedFrom(x, cuts \ {c}))

JoinedSegments(x) == JoinedFrom(x, KeptCuts(x))

\* C6: the feature text that add-plan stores in the row it inserts is the
\* comma-space join, in original order, of the submitted text's
\* comma-separated segments, each trimmed, the empty ones dropped; the text
\* "a, ,b,,c " is stored as "a, b, c".
C6_StoredFeatures ==
    [][\A t \in tasks :
          handleAddPlan_inserted(t) =>
              LET stored == dbPlans'[Len(dbPlans')].features
              IN  /\ Len(dbPlans') = Len(dbPlans) + 1
                  /\ stored = JoinedSegments(newPlan.features)
                  /\ newPlan.features = FeatureExample =>
                        stored = <<"a", ",", " ", "b", ",", " ", "c">>
      ]_vars

\* the table holds the row inserted for "a, ,b,,c ", its features "a, b, c"
C6_Witness ==
    /\ newPlan.features = FeatureExample
    /\ \E t \in tasks : t.kind = "addPlan" /\ t.pc = "fetch"
    /\ Len(dbPlans) = Len(SeedPlans) + 1
    /\ dbPlans[Len(dbPlans)].features = <<"a", ",", " ", "b", ",", " ", "c">>

---------------------------------------------------------------------------
(* The stored file name *)

\* an upper-case and a lower-case letter, a digit, the dot, a character the
\* pattern does not allow, and a letter outside a-z ("Eacute" is U+00C9)
NameChars == {"Q", "z", "7", ".", "!", "Eacute"}

\* the file with every non-empty name of up to MaxLen characters, and the
\* file "My Photo!.png"
UploadFiles == (TextsUpTo(NameChars, MaxLen) \ {NoText}) \cup {MyPhoto}

InitUpload == InitWith({"user"}, {SeedPlans}, {SeedMedia}, 1)

\* the backend answers every call with success; the user picks one file and
\* uploads it
NextUpload ==
    \/ authResolve
    \/ \E t \in tasks : fetchRead(t, TRUE)
    \/ \E t \in tasks : fetchDone(t)
    \/ \E t \in tasks : bootDone(t, TRUE)
    \/ \E d \in TickSteps : Tick(d)
    \/ picks < MaxPicks /\ \E name \in UploadFiles : handleFileChange(name)
    \/ handleMediaUpload
    \/ \E t \in tasks : handleMediaUpload_uploaded(t)
    \/ \E t \in tasks : handleMediaUpload_progress(t)
    \/ \E t \in tasks : handleMediaUpload_inserted(t)
    \/ \E t \in tasks : handleMediaUpload_done(t)

SpecUpload == InitUpload /\ [][NextUpload]_vars

AsciiLetters == Range(Lower) \cup Range(Upper)
AllLetters == AsciiLetters \cup {"Eacute", "eacute"}
Digits == Range(DigitChars)

\* the name with every character other than a letter, a digit or a dot
\* replaced by an underscore, and the letters lowercased
Cleaned(name, letters) ==
    [i \in DOMAIN name |->
        IF name[i] \in letters THEN ToLowerChar(name[i])
        ELSE IF name[i] \in Digits \cup {"."} THEN name[i]
        ELSE "_"]

DigitValue(c) == CHOOSE n \in 0 .. 9 : DigitChars[n + 1] = c

RECURSIVE DecimalValue(_)
DecimalValue(ds) ==
    IF ds = <<>> THEN 0
    ELSE 10 * DecimalValue(SubSeq(ds, 1, Len(ds) - 1)) + DigitValue(ds[Len(ds)])

\* stored is t in decimal, an underscore, and the cleaned name
IsStoredName(stored, t, name, letters) ==
    LET k == Len(stored) - Len(name)
    IN  /\ k > 1
        /\ stored[k] = "_"
        /\ \A i \in 1 .. k - 1 : stored[i] \in Digits
        /\ k > 2 => stored[1] # "0"
        /\ DecimalValue(SubSeq(stored, 1, k - 1)) = t
        /\ SubSeq(stored, k + 1, Len(stored)) = Cleaned(name, letters)

MyPhotoCleaned == <<"m","y","_","p","h","o","t","o","_",".","p","n","g">>

\* the file name handleMediaUpload derives at instant now from the picked
\* file is the claimed one, it is the name under which the object is stored,
\* and it is the file_name of the catalog row
StoredUnder(letters) ==
    /\ handleMediaUpload =>
          \A t \in tasks' \ tasks :
              /\ IsStoredName(t.file, now, uploadFile, letters)
              /\ uploadFile = MyPhoto => t.file = DigitsOf(now) \o <<"_">> \o MyPhotoCleaned
    /\ \A t \in tasks :
          /\ handleMediaUpload_uploaded(t) => storage' = storage \cup {StoragePath(t.file)}
          /\ handleMediaUpload_inserted(t) => dbMedia'[Len(dbMedia')].file_name = t.file
          /\ t.kind = "upload" => \A u \in tasks' : u.op = t.op => u.file = t.file

\* C7 (as amended): for every original file name and upload instant t
\* (milliseconds), the stored file name is t, an underscore, then the
\* original name with every character other than an ASCII letter (a-z, A-Z),
\* a digit (0-9) or a dot replaced by an underscore and all letters
\* lowercased; "My Photo!.png" at t yields t, "_my_photo_.png".
C7_StoredFileName == [][StoredUnder(AsciiLetters)]_vars

\* C7 (as claimed): the same with every letter kept, U+00C9 among them.
C7_AsClaimed == [][StoredUnder(AllLetters)]_vars

\* the catalog row of "My Photo!.png", uploaded at Now0 or a millisecond later
C7_Witness ==
    \E i \in DOMAIN dbMedia :
        dbMedia[i].file_name \in
            { DigitsOf(t) \o <<"_">> \o MyPhotoCleaned : t \in Now0 .. Now0 + MaxSkew }

---------------------------------------------------------------------------
(* Refreshing twice *)

\* in this step the fetch that t awaited resumes in the mounted component,
\* having read the rows it mirrors
RefreshCompletes(t) ==
    /\ t.pc = "fetched"
    /\ t.snap.ok
    /\ mounted
    /\ ~(\E u \in tasks' : u.op = t.op)

\* C8: a refresh of a collection (fetchPlans or fetchMedia) that follows a
\* refresh of the same collection and reads the rows that one read (the
\* remote collection was not changed in between) leaves the mirror as the
\* first refresh left it, entry for entry and in the same order.
C8_RefreshTwice ==
    [][\A t \in tasks :
          (RefreshCompletes(t) /\ lastSnap[TableOf(t)] = <<t.snap.rows>>) =>
              /\ plans' = plans
              /\ mediaItems' = mediaItems
      ]_vars

\* the plans were refreshed after the submitted plan was inserted, and a
\* second refresh has read the same two rows and is about to resume
C8_Witness ==
    /\ mounted
    /\ Len(dbPlans) = Len(SeedPlans) + 1
    /\ lastSnap[PLANS_TABLE] = <<dbPlans>>
    /\ Len(plans) = Len(dbPlans)
    /\ \E t \in tasks :
          /\ TableOf(t) = PLANS_TABLE
          /\ t.pc = "fetched"
          /\ t.snap.ok
          /\ t.snap.rows = dbPlans

---------------------------------------------------------------------------
(* Toasts *)

\* C9: once the removal timer of a toast has fired (TOAST_DELAY after
\* addToast inserted it), the toast collection of the mounted component
\* contains no toast with that identifier, whether or not the toast had been
\* dismissed by hand before.
C9_ExpiredToastsGone ==
    mounted => \A i \in DOMAIN toasts : toasts[i].id \notin fired

\* the timer of one toast has fired, TOAST_DELAY or more after it was set,
\* while a later toast is still shown
C9_Witness ==
    /\ mounted
    /\ toasts # <<>>
    /\ \E id \in fired : DecimalValue(id) + TOAST_DELAY <= now
    /\ \A i \in DOMAIN toasts : toasts[i].id \notin fired

---------------------------------------------------------------------------
(* The confirmation modal *)

\* the deletions this step starts
NewDeletions ==
    {t \in tasks' : t.kind = "delete" /\ ~(\E u \in tasks : u.op = t.op)}

\* C11: from the open modal, Cancel closes it and invokes nothing (no
\* deletion is started, the backend and the toasts are untouched); Confirm
\* closes it and starts exactly one deletion, that of the queued item, and
\* no other step starts a deletion; and when that deletion ends, with its
\* success or with a failure, the modal is closed.
C11_ModalCancelConfirm ==
    [][/\ cancelDeletion =>
              /\ ~ModalVisible'
              /\ NewDeletions = {}
              /\ UNCHANGED <<tasks, backendVars, toasts, timers>>
       /\ confirmDeletion =>
              /\ ~ModalVisible'
              /\ Cardinality(NewDeletions) = 1
              /\ \A t \in NewDeletions : t.item = itemToDelete[1]
       /\ NewDeletions # {} => confirmDeletion
       /\ \A t \in tasks :
              (confirmDeletion_failed(t) \/ confirmDeletion_done(t)) => ~ModalVisible'
      ]_vars

\* both confirmed deletions have ended, one with a failure and one with its
\* success toast, and the modal is closed
C11_Witness ==
    /\ mounted
    /\ opsLeft = 0
    /\ ~(\E t \in tasks : t.kind = "delete")
    /\ console \in {ErrorLine("confirmDeletion", c) : c \in {"lookup", "remove", "del"}}
    /\ \E i \in DOMAIN toasts : toasts[i].type = "success"
    /\ ~ModalVisible
    /\ ~showDeleteModal

---------------------------------------------------------------------------
(* The steps of upload-media *)

\* the stored objects no catalog row points to
Orphans == {path \in storage : ~(\E i \in DOMAIN dbMedia : dbMedia[i].url = path)}

\* the one upload-media of the scenario ended at its failed call
UploadEndedAt(call) ==
    /\ console = ErrorLine("handleMediaUpload", call)
    /\ ~(\E t \in tasks : t.kind = "upload")

\* C12: the step in which the blob upload or the catalog insert of an
\* upload-media fails ends the operation: it issues no further call (no
\* catalog insert, no re-fetch, no storage remove), so the catalog, the
\* bucket and the media mirror are as before the step.  After a failed blob
\* upload the bucket and the catalog are what they were when the operation
\* started; after a failed catalog insert the object uploaded by the
\* operation stays in the bucket with no catalog row.
C12_UploadFailureAborts ==
    /\ [][\A t \in tasks :
             handleMediaUpload_failed(t) =>
                 /\ ~(\E u \in tasks' : u.op = t.op)
                 /\ UNCHANGED <<backendVars, mediaItems, lastSnap>>
                 /\ t.pc = "insert" => StoragePath(t.file) \in Orphans'
                 /\ t.pc = "upload" =>
                        ~(\E i \in DOMAIN dbMedia' : dbMedia'[i].file_name = t.file)
         ]_vars
    /\ [](UploadEndedAt("upload") =>
             /\ dbMedia = SeedMedia
             /\ storage = {StoragePath(SeedMedia[i].file_name) : i \in DOMAIN SeedMedia})
    /\ [](UploadEndedAt("insert") =>
             /\ dbMedia = SeedMedia
             /\ Cardinality(Orphans) = 1)

\* the catalog insert of an upload failed after its blob upload succeeded:
\* the object is in the bucket and the catalog has no row for it
C12_Witness ==
    /\ UploadEndedAt("insert")
    /\ Orphans # {}
    /\ mounted
    /\ \E i \in DOMAIN toasts : toasts[i].message = "upload failed"

---------------------------------------------------------------------------
(* Teardown and the change-notification channels *)

\* C13: once the component has been torn down, neither the plans channel
\* nor the media channel is subscribed, whenever the teardown happened.
C13_NoChannelAfterTeardown ==
    ~mounted => channels = {}

---------------------------------------------------------------------------
(* Overlapping refreshes *)

\* The dashboard with one add-plan and another client, where every backend
\* call succeeds: the only freedom is the order of requests and responses.
InitRaces == InitWith({"user"}, {SeedPlans}, {SeedMedia}, 1)

NextRaces ==
    \/ authResolve
    \/ \E t \in tasks : fetchRead(t, TRUE)
    \/ \E t \in tasks : fetchDone(t)
    \/ \E t \in tasks : bootDone(t, TRUE)
    \/ Realtime
    \/ OtherClients
    \/ newPlan = EmptyForm /\ handleNewPlanChange(BasicForm)
    \/ handleAddPlan
    \/ \E t \in tasks : handleAddPlan_inserted(t)
    \/ \E t \in tasks : handleAddPlan_done(t)

SpecRaces == InitRaces /\ [][NextRaces]_vars

Mirror(table) == IF table = PLANS_TABLE THEN plans ELSE mediaItems

\* what a refresh of the collection would mirror now
Remote(table) ==
    IF table = PLANS_TABLE THEN FetchedPlans(SelectAll(PLANS_TABLE))
    ELSE FetchedMedia(SelectAll(MEDIA_TABLE))

RefreshInFlight(table) ==
    \E t \in tasks : TableOf(t) = table /\ t.pc \in {"fetch", "fetched"}

\* C14: whatever the order of the fetch requests and their responses, when
\* no refresh of a collection is in flight any more and the remote
\* collection has not changed since the last refresh of it was issued, the
\* mirror equals the remote collection.
C14_RacesOnlyRedundant ==
    \A table \in Tables :
        (mounted /\ ~changedSince[table] /\ ~RefreshInFlight(table)) =>
            Mirror(table) = Remote(table)

---------------------------------------------------------------------------
(* Change notifications *)

\* the handlers this step starts
NewTasks == {t \in tasks' : ~(\E u \in tasks : u.op = t.op)}

Rows(table) == IF table = PLANS_TABLE THEN dbPlans ELSE dbMedia

FetchOf(table) == IF table = PLANS_TABLE THEN "fetchPlans" ELSE "fetchMedia"

\* C15: while a table's channel is subscribed, every change of the table
\* (an insert or a delete, by this client or by another) leaves one
\* notification; a notification is consumed only by the channel's callback
\* (or dropped when the channel is removed at teardown); and the callback
\* starts exactly one handler, a fetch of the whole collection of that table
\* and of no other, leaving every handler already running as it is.
C15_NotificationRefetches ==
    [][\A table \in Tables :
          /\ notify(table) =>
                 /\ Cardinality(NewTasks) = 1
                 /\ \A t \in NewTasks :
                        /\ t.kind = FetchOf(table)
                        /\ t.pc = "fetch"
                        /\ TableOf(t) = table
                 /\ tasks \subseteq tasks'
          /\ (table \in channels /\ Rows(table)' # Rows(table)) =>
                 pending'[table] = pending[table] + 1
          /\ pending'[table] < pending[table] => (notify(table) \/ unmount)
      ]_vars

\* a notification of a change of the media table made by another client has
\* started a fetch of the media collection, and none of the plans
C15_Witness ==
    /\ mounted
    /\ Len(dbMedia) < Len(SeedMedia)
    /\ \E t \in tasks : t.op <= 0 - 3 /\ t.kind = "fetchMedia" /\ t.pc = "fetch"
    /\ ~(\E t \in tasks : t.op <= 0 - 3 /\ t.kind = "fetchPlans")

---------------------------------------------------------------------------
(* Signing in *)

InitLogin == InitWith({"none"}, {SeedPlans}, {SeedMedia}, 0)

SpecLogin == InitLogin /\ [][LoginPage]_vars

\* C16: the submit of the login form clears the error and disables the form;
\* when the sign-in fails the message the backend reported is the error
\* shown, unchanged, the form is enabled again and the page stays; when the
\* sign-in succeeds the page becomes /admin and no error is shown.  (So no
\* error is shown while a sign-in is awaited.)
C16_LoginOutcomes ==
    /\ [][/\ handleLogin => (loginError' = <<>> /\ isLoading')
          /\ \A message \in Messages :
                 handleLogin_failed(message) =>
                     /\ loginError' = <<message>>
                     /\ ~isLoading'
                     /\ location' = "/login"
          /\ handleLogin_signedIn => (location' = "/admin" /\ loginError' = <<>>)
         ]_vars
    /\ []((isLoading \/ location = "/admin") => loginError = <<>>)

\* a sign-in with the account's credentials succeeded: the page is /admin,
\* no message is shown and the form is still disabled
C16_Witness ==
    /\ location = "/admin"
    /\ loginError = <<>>
    /\ isLoading
    /\ [email |-> email, password |-> password] \in Accounts

---------------------------------------------------------------------------
(* No optimistic update *)

\* the step is the completion of a successful fetch of the table's
\* collection, and the mirror becomes what that fetch read
ReplacedByFetch(table) ==
    \E t \in tasks :
        /\ t.pc = "fetched"
        /\ t.snap.ok
        /\ TableOf(t) = table
        /\ ~(\E u \in tasks' : u.op = t.op /\ u.pc = "fetched")
        /\ Mirror(table)' = (IF table = PLANS_TABLE THEN FetchedPlans(t.snap.rows)
                             ELSE FetchedMedia(t.snap.rows))

\* the step is the completion of a fetch that failed
FailedFetchCompletes ==
    \E t \in tasks :
        /\ t.pc = "fetched"
        /\ ~t.snap.ok
        /\ ~(\E u \in tasks' : u.op = t.op /\ u.pc = "fetched")

\* C17: each mirror changes only in a step that completes a successful fetch
\* of its collection, and then becomes what that fetch read; so no step of
\* add-plan, upload-media or confirmDeletion before its re-fetch has
\* returned changes a mirror, and the completion of a failed fetch leaves
\* both mirrors as they are.
C17_NoOptimisticUpdate ==
    [][/\ \A table \in Tables : Mirror(table)' # Mirror(table) => ReplacedByFetch(table)
       /\ FailedFetchCompletes => UNCHANGED <<plans, mediaItems>>
      ]_vars

\* an add-plan has inserted its row and awaits its re-fetch: the mirror
\* still lacks the row
C17_Witness ==
    /\ mounted
    /\ Len(dbPlans) = Len(SeedPlans) + 1
    /\ Len(plans) = Len(SeedPlans)
    /\ \E t \in tasks : t.kind = "addPlan" /\ t.pc \in {"fetch", "fetched"}

---------------------------------------------------------------------------
(* Partial media deletions *)

\* The dashboard on which the user deletes media items, each backend call of
\* a deletion succeeding or failing; what is enabled eventually happens.
InitDeleteMedia == InitWith({"user"}, {SeedPlans}, {SeedMedia}, MaxOps)

NextDeleteMedia ==
    \/ Loading
    \/ Realtime
    \/ \E i \in DOMAIN mediaItems : handleDeleteMediaPrompt(i)
    \/ cancelDeletion
    \/ confirmDeletion
    \/ \E t \in tasks : confirmDeletion_lookedUp(t)
    \/ \E t \in tasks : confirmDeletion_removed(t)
    \/ \E t \in tasks : confirmDeletion_deleted(t)
    \/ \E t \in tasks : confirmDeletion_failed(t)
    \/ \E t \in tasks : confirmDeletion_done(t)

SpecDeleteMedia ==
    InitDeleteMedia /\ [][NextDeleteMedia]_vars /\ WF_vars(NextDeleteMedia)

\* the catalog rows whose stored object has been removed
Dangling == {i \in DOMAIN dbMedia : StoragePath(dbMedia[i].file_name) \notin storage}

---------------------------------------------------------------------------
(* Deleting a plan that is gone *)

\* C19: when the row delete of a confirmed delete-plan reports no error,
\* the handler goes on to the re-fetch of the plans in the same way whether
\* a row matched the identifier or none did (then the table is unchanged):
\* it adds no toast, logs nothing and keeps nothing that tells the two cases
\* apart; and when the re-fetch has returned it ends with the success toast
\* and no error toast.
C19_DeleteOfMissingPlan ==
    [][\A t \in tasks :
          /\ (confirmDeletion_deleted(t) /\ t.item.type = "plan") =>
                 /\ tasks' = (tasks \ {t}) \cup {[t EXCEPT !.pc = "fetch"]}
                 /\ UNCHANGED <<toasts, console, itemToDelete>>
                 /\ (\A i \in DOMAIN dbPlans : dbPlans[i].id # t.item.id) =>
                        dbPlans' = dbPlans
          /\ (confirmDeletion_done(t) /\ t.item.type = "plan") =>
                 EndsWith(t, "deleted", "success")
      ]_vars

\* two deletions of the only plan were confirmed and both ended with the
\* success toast: the second found no row to delete
C19_Witness ==
    /\ mounted
    /\ opsLeft = 0
    /\ tasks = {}
    /\ dbPlans = <<>>
    /\ dbMedia = SeedMedia
    /\ console = <<>>
    /\ Len(toasts) = 2
    /\ \A i \in DOMAIN toasts : toasts[i].type = "success"

---------------------------------------------------------------------------
(* The alphabet of stored file names *)

\* the file names upload-media has generated: those of its running
\* operations and those of the catalog rows it inserted
GeneratedNames ==
    {t.file : t \in {u \in tasks : u.kind = "upload"}}
        \cup {dbMedia[i].file_name :
                 i \in {j \in DOMAIN dbMedia : dbMedia[j] \notin Range(SeedMedia)}}

OnlyFrom(chars) ==
    \A name \in GeneratedNames : \A i \in DOMAIN name : name[i] \in chars

\* C20 (amended): every stored file name generated by upload-media consists
\* only of alphanumeric characters (digits and lower-case ASCII letters),
\* dots and underscores.
C20_NameAlphabet == OnlyFrom(Range(Lower) \cup Digits \cup {".", "_"})

\* C20 as claimed: only alphanumeric characters and dots.
C20_AsClaimed == OnlyFrom(AllLetters \cup Digits \cup {"."})

\* the catalog holds the row of an upload whose original name had an
\* upper-case letter, a dot and a character that was replaced
C20_Witness ==
    \E name \in GeneratedNames :
        /\ \E i \in DOMAIN dbMedia : dbMedia[i].file_name = name
        /\ "q" \in Range(name)
        /\ "." \in Range(name)
        /\ Cardinality({i \in DOMAIN name : name[i] = "_"}) > 1

---------------------------------------------------------------------------
(* The contact form's honeypot *)

\* the contact form alone, in either of its two sources, with the clock
InitContact ==
    /\ InitDashboard({"none"}, {SeedPlans}, {SeedMedia}, 0)
    /\ InitSite(ContactVariants)

\* time passes as for the dashboard, or by the time the user takes to correct
\* the form
NextContact ==
    \/ ContactPage
    \/ \E d \in TickSteps \cup {ThinkTime} : Tick(d)

SpecContact == InitContact /\ [][NextContact]_vars

\* a submit event is handled
Submitted == handleSubmit \/ handleSubmit_part_000

\* the callbacks the submit event being handled has started
StartedNow == {contactTimers'[i] : i \in DOMAIN contactTimers'}
                  \ {contactTimers[i] : i \in DOMAIN contactTimers}

\* C23: a submit with a non-empty honeypot takes the status from a value other
\* than submitting straight to success, leaves the form data and the log as
\* they are, and starts one callback only, due 2 seconds later, which sets the
\* status to idle and nothing else; when that callback runs, the status is idle
C23_HoneypotSubmit ==
    /\ [][Submitted /\ formData.hp # "" =>
            /\ status # "submitting"
            /\ status' = "success"
            /\ formData' = formData
            /\ logged' = logged
            /\ StartedNow = {[due |-> now + 2000, status |-> "idle", form |-> <<>>,
                              next |-> 0, from |-> submits', cause |-> "honeypot"]}]_vars
    /\ [][\A i \in DOMAIN contactTimers :
            timeout(i) /\ contactTimers[i].cause = "honeypot" =>
                /\ now >= contactTimers[i].due
                /\ status' = "idle"
                /\ formData' = formData
                /\ logged' = logged
                /\ Len(contactTimers') = Len(contactTimers) - 1]_vars

\* a filled form was submitted with the honeypot set: success is shown, the
\* data is still in the form, nothing was logged, the reset is pending
C23_Witness ==
    /\ status = "success"
    /\ formData.hp # ""
    /\ formData.name # "" /\ formData.email # "" /\ formData.message # ""
    /\ logged = <<>>
    /\ \E i \in DOMAIN contactTimers : contactTimers[i].cause = "honeypot"

---------------------------------------------------------------------------
(* The contact form's validation *)

\* a required field is empty: name, email or message, and in ContactForm.tsx
\* the topic too
EmptyRequired ==
    \/ formData.name = ""
    \/ formData.email = ""
    \/ formData.message = ""
    \/ contactVariant = CONTACT_FORM /\ formData.topic = ""

\* C28: a submit with an empty honeypot and an empty required field sets the
\* status to error, leaves the form data and the log as they are, and starts
\* one callback only, due 3 seconds later, which sets the status to idle (so
\* nothing this submit started ever sets success); when that callback runs,
\* the status is idle and the form data is still unchanged
C28_InvalidSubmit ==
    /\ [][Submitted /\ formData.hp = "" /\ EmptyRequired =>
            /\ status' = "error"
            /\ formData' = formData
            /\ logged' = logged
            /\ StartedNow = {[due |-> now + 3000, status |-> "idle", form |-> <<>>,
                              next |-> 0, from |-> submits', cause |-> "invalid"]}]_vars
    /\ [][\A i \in DOMAIN contactTimers :
            timeout(i) /\ contactTimers[i].cause = "invalid" =>
                /\ now >= contactTimers[i].due
                /\ status' = "idle"
                /\ formData' = formData
                /\ logged' = logged
                /\ Len(contactTimers') = Len(contactTimers) - 1]_vars

\* a form with a name and an e-mail address but no message was submitted: the
\* error is shown, what was entered is still there, the reset is pending
C28_Witness ==
    /\ status = "error"
    /\ formData.hp = ""
    /\ formData.name # "" /\ formData.email # "" /\ formData.message = ""
    /\ \E i \in DOMAIN contactTimers :
           contactTimers[i].cause = "invalid" /\ contactTimers[i].from = submits

---------------------------------------------------------------------------
(* The contact form while a submission is in flight *)

\* the simulated submission of a valid submit has not completed yet
SubmissionInFlight ==
    \E i \in DOMAIN contactTimers : contactTimers[i].cause = "valid"

\* C26: from a valid submit until its completion the status is submitting
\* (the submit button is disabled, no second submission can start), whatever
\* reset-to-idle timers of earlier outcomes are still pending
C26_SubmittingUntilCompletion ==
    SubmissionInFlight =>
        /\ status = "submitting"
        /\ ~ENABLED Submitted
        /\ Cardinality({i \in DOMAIN contactTimers : contactTimers[i].cause = "valid"}) = 1

---------------------------------------------------------------------------
(* The lightbox index *)

InitGallery == InitWith({"none"}, {SeedPlans}, {SeedMedia}, 0)

SpecGallery == InitGallery /\ [][GalleryPage]_vars

\* C30: the lightbox index is null or an index 0..N-1 of the image list,
\* whatever the clicks, swipes and keys; next from the last image shows the
\* first, previous from the first shows the last, and next followed by
\* previous leads back to the image shown
C30_LightboxIndex ==
    /\ [](openIndex = <<>> \/ (Len(openIndex) = 1 /\ openIndex[1] \in 0..21))
    /\ [](LightboxOpen => prevUpdater(nextUpdater(openIndex)) = openIndex)
    /\ [][nextImage /\ openIndex = <<21>> => openIndex' = <<0>>]_vars
    /\ [][prevImage /\ openIndex = <<0>> => openIndex' = <<21>>]_vars

\* the lightbox, opened from the first thumbnail, shows the last image, and a
\* touch has begun on it
C30_Witness ==
    /\ openIndex = <<21>>
    /\ lastFocusedRef = <<0>>
    /\ touchStartX # <<>>
    /\ bodyOverflow = "hidden"

---------------------------------------------------------------------------
(* The names and prices add-plan sends *)

PlanNameChars == {"A", " "}

\* the form with every non-empty name and price of up to two characters, a
\* blank or a letter each: all of them pass the inputs' required constraint
NameForms ==
    { [name |-> name, price |-> price, features |-> <<"a">>, isPrimary |-> FALSE] :
        name \in TextsUpTo(PlanNameChars, 2) \ {NoText},
        price \in TextsUpTo(PlanNameChars, 2) \ {NoText} }

InitNames == InitWith({"user"}, {SeedPlans}, {SeedMedia}, 1)

\* the user fills the empty form once and submits it
NextNames ==
    \/ Loading
    \/ newPlan = EmptyForm /\ \E form \in NameForms : handleNewPlanChange(form)
    \/ handleAddPlan
    \/ \E t \in tasks : handleAddPlan_inserted(t)
    \/ \E t \in tasks : handleAddPlan_failed(t)
    \/ \E t \in tasks : handleAddPlan_done(t)

SpecNames == InitNames /\ [][NextNames]_vars

\* C21: every plan row add-plan has sent to the backend, for a form that
\* passed the required constraint of its inputs, has a non-empty name and a
\* non-empty price
C21_SentRowsNamed ==
    \A t \in {u \in tasks : u.kind = "addPlan"} :
        t.row.name # NoText /\ t.row.price # NoText

---------------------------------------------------------------------------
(* The identifiers of the toasts *)

\* what is left of the toasts when one of them is taken out
OthersOf(i) == Without(toasts, i)

\* C22: no two toasts visible at the same time have the same identifier, and
\* a dismissal or an expiry removes exactly one toast, the others staying in
\* their order
C22_ToastIdsDistinct ==
    /\ [](\A i, j \in DOMAIN toasts : i # j => toasts[i].id # toasts[j].id)
    /\ [][\A i \in DOMAIN toasts :
            removeToast(toasts[i].id) => toasts' = OthersOf(i)]_vars
    /\ [][\A k \in DOMAIN timers : \A i \in DOMAIN toasts :
            toastExpire(k) /\ mounted /\ timers[k].id = toasts[i].id =>
                toasts' = OthersOf(i)]_vars

---------------------------------------------------------------------------
(* An open prompt while an earlier deletion completes *)

\* C24: whenever the modal flag is set the pending item is non-null, and on
\* a page that is not torn down an open prompt stays visible until it is
\* cancelled or confirmed, also when an earlier confirmed deletion completes
\* after the prompt was opened
C24_OpenPromptKeepsItem ==
    /\ [](showDeleteModal => itemToDelete # <<>>)
    /\ [][ModalVisible /\ ~ModalVisible' /\ mounted' =>
            cancelDeletion \/ confirmDeletion]_vars

---------------------------------------------------------------------------
(* What the session check lets start *)

\* the initial fetches or a subscription have been started
LoadStarted == bootPc # "idle" \/ (\E t \in tasks : t.boot) \/ channels # {}

\* C25: the initial fetches of the two collections and the two subscriptions
\* are started only after the session check has resolved, and only when the
\* gate is authorized: a session with a user exists
C25_LoadOnlyWhenAuthorized ==
    LoadStarted => authPc = "done" /\ authReady /\ isAdmin /\ session = "user"

---------------------------------------------------------------------------
(* The busy flags *)

\* an administrator's page on which plans are added and files uploaded, one
\* after the other or together, every backend call succeeding or failing
InitBusy == InitWith({"user"}, {SeedPlans}, {SeedMedia}, MaxOps)

NextBusy ==
    \/ Loading
    \/ unmount
    \/ \E d \in TickSteps : Tick(d)
    \/ AddPlan(Forms)
    \/ Upload(Files)

SpecBusy == InitBusy /\ [][NextBusy]_vars

Running(kind) == \E t \in tasks : t.kind = kind

\* C27: on a page that has not been torn down, the add-plan flag is set
\* exactly while an add-plan operation is between its start and its end, and
\* the upload flag exactly while an upload is; so with every operation ended,
\* however it ended, neither flag is set
C27_BusyFlagsCleared ==
    mounted =>
        /\ isAddingPlan <=> Running("addPlan")
        /\ isUploading <=> Running("upload")

\* two operations have ended, an add-plan among them by a failed insert, and
\* none is running
C27_Witness ==
    /\ mounted
    /\ opsLeft = 0
    /\ tasks = {}
    /\ console # <<>>
    /\ \E i \in DOMAIN toasts : toasts[i].message = "add failed"
    /\ ~isAddingPlan /\ ~isUploading

---------------------------------------------------------------------------
(* Feature texts, stored and read back *)

\* the segments of a feature text between its commas, stripped of the blanks
\* around them, those that are not empty, in their order
RECURSIVE SegmentsFrom(_, _)
SegmentsFrom(x, cuts) ==
    IF cuts = {} THEN <<>>
    ELSE LET c == Min(cuts)
         IN  <<Stripped(SegmentAfter(x, c))>> \o SegmentsFrom(x, cuts \ {c})

KeptSegments(x) == SegmentsFrom(x, KeptCuts(x))

\* C29: reading the feature text add-plan stores the way fetchPlans reads it
\* gives exactly the segments add-plan kept of the text typed; every entry of
\* a plan read by fetchPlans is non-empty and has no blank at either end; and
\* normalizing a stored (normalized) feature text gives the same text
C29_FeatureRoundTrip ==
    /\ \A t \in {u \in tasks : u.kind = "addPlan"} :
           /\ ParseFeatures(t.row.features) = KeptSegments(newPlan.features)
           /\ NormalizeFeatures(t.row.features) = t.row.features
    /\ \A i \in DOMAIN dbPlans :
           NormalizeFeatures(dbPlans[i].features) = dbPlans[i].features
    /\ \A i \in DOMAIN plans : \A k \in DOMAIN plans[i].features :
           LET entry == plans[i].features[k]
           IN  entry # <<>> /\ entry[1] # " " /\ entry[Len(entry)] # " "

\* the plan typed with the features "a, ,b,,c " has been stored and read
\* back: the list shows it with the three features a, b and c
C29_Witness ==
    /\ \E i \in DOMAIN dbPlans :
           dbPlans[i].features = <<"a", ",", " ", "b", ",", " ", "c">>
    /\ \E i \in DOMAIN plans : plans[i].features = << <<"a">>, <<"b">>, <<"c">> >>

===========================================================================
